---------------------------- MODULE Spec2Model ----------------------------
(***************************************************************************)
(* Model of image-analysis-mcp: the pixel-domain engines (histogram,       *)
(* tonal, colour), the EXIF / image-info extraction and the three tool     *)
(* entry points of tools.py.                                               *)
(*                                                                         *)
(* A pixel buffer (numpy array H x W x 3, uint8, row-major) is kept        *)
(* run-length encoded: a sequence of runs [rgb |-> <<r,g,b>>, n |-> k],    *)
(* k consecutive pixels of that colour in row-major order.  The encoding   *)
(* is lossless and lets a buffer of more than 10,000 pixels be a value of  *)
(* the model.                                                              *)
(***************************************************************************)
EXTENDS Integers, Sequences, FiniteSets, TLC

VARIABLES
    pc,               \* position of the modelled caller
    image,            \* the decoded pixel buffer (tools.py:202)
    hist_result,      \* value returned by calculate_histogram
    tonal_analysis,   \* value returned by analyze_tonal_properties
    n_colors,         \* the n_colors argument of extract_dominant_colors
    kmeans_seeded,    \* how the seeded KMeans (random_state=42) numbers clusters
    dominant_calls,   \* outcomes of the extract_dominant_colors calls so far
    avg_rgb,          \* channel means handed to detect_color_cast
    color_cast,       \* value returned by detect_color_cast
    exif_file,        \* what exifread finds in the file given to _extract_exif
    exif_dict,        \* outcome of _extract_exif
    info_file,        \* what PIL / rawpy find in the file given to _get_image_info
    image_info,       \* outcome of _get_image_info
    tool_file,        \* the path handed to a tool and what lies on disk there
    tool_call,        \* the tool called and its arguments
    tool_steps,       \* the steps the tool has run, in order
    tool_result,      \* the dictionary the tool returned
    fn_args,          \* arguments handed to a helper function called on its own
    fn_result         \* what that helper function returned or raised

histVars == <<hist_result, tonal_analysis>>
colorVars == <<n_colors, kmeans_seeded, dominant_calls>>
castVars == <<avg_rgb, color_cast>>
exifVars == <<exif_file, exif_dict>>
infoVars == <<info_file, image_info>>
toolVars == <<tool_file, tool_call, tool_steps, tool_result>>
fnVars == <<fn_args, fn_result>>

vars == <<pc, image, histVars, colorVars, castVars, exifVars, infoVars, toolVars, fnVars>>

None == "None"

(***************************************************************************)
(* Bounds                                                                  *)
(***************************************************************************)
MaxPixels == 2        \* small buffers hold 1..MaxPixels pixels
MaxCalls == 2         \* calls of one engine on the same buffer
MeanScale == 100      \* channel means are kept in units of 1/MeanScale
MaxVaried == 2        \* EXIF tags that differ from the base tag table

(***************************************************************************)
(* Generic helpers                                                         *)
(***************************************************************************)
Max2(a, b) == IF a >= b THEN a ELSE b
Min2(a, b) == IF a <= b THEN a ELSE b
Abs(a) == IF a < 0 THEN -a ELSE a

\* sum of f[lo..hi], by halving
RECURSIVE SumRange(_, _, _)
SumRange(f, lo, hi) ==
    IF lo > hi THEN 0
    ELSE IF lo = hi THEN f[lo]
    ELSE LET mid == (lo + hi) \div 2
         IN  SumRange(f, lo, mid) + SumRange(f, mid + 1, hi)

SumSeq(s) == SumRange(s, 1, Len(s))

\* a / b rounded to the nearest integer, halves to even
RoundDiv(a, b) ==
    LET q == a \div b
        r == a % b
    IN  IF 2 * r > b \/ (2 * r = b /\ q % 2 = 1) THEN q + 1 ELSE q

(***************************************************************************)
(* Pixel buffers                                                           *)
(***************************************************************************)
Px(r, g, b) == <<r, g, b>>

\* Colours the small buffers are built from: the extremes, the two sides of
\* each tonal band edge, a saturated primary and a colour whose luminance is
\* an exact integer in real arithmetic.
Palette ==
    { Px(0, 0, 0), Px(255, 255, 255), Px(64, 64, 64), Px(65, 65, 65),
      Px(192, 192, 192), Px(193, 193, 193), Px(255, 0, 0), Px(0, 72, 24) }

Shapes == { s \in (1..MaxPixels) \X (1..MaxPixels) : s[1] * s[2] <= MaxPixels }

SmallImages ==
    UNION { { [h |-> s[1], w |-> s[2],
               runs |-> [i \in 1..(s[1] * s[2]) |-> [rgb |-> f[i], n |-> 1]]]
              : f \in [1..(s[1] * s[2]) -> Palette] }
            : s \in Shapes }

\* image.size / len(pixels): the number of pixels of a buffer
NumPixels(img) == SumSeq([i \in 1..Len(img.runs) |-> img.runs[i].n])

(***************************************************************************)
(* HistogramEngine (analysis/histogram.py)                                 *)
(***************************************************************************)
\* Gray levels v for which the double-precision sum
\* 0.299*v + 0.587*v + 0.114*v lands one ulp below v.
GrayShort ==
    { 1, 2, 4, 8, 11, 13, 16, 22, 26, 27, 32, 39, 44, 51, 52, 54, 57, 59, 61,
      64, 78, 81, 88, 91, 95, 101, 102, 104, 108, 114, 115, 118, 122, 127,
      128, 143, 149, 156, 157, 162, 169, 175, 176, 182, 183, 190, 195, 202,
      203, 204, 208, 209, 216, 223, 225, 228, 230, 235, 236, 239, 241, 244,
      249, 251, 254 }

\* Non-gray palette colours with the same shortfall.
ColourShort == { Px(0, 72, 24) }

FloatShort(p) ==
    \/ p[1] = p[2] /\ p[2] = p[3] /\ p[1] \in GrayShort
    \/ p \in ColourShort

\* (0.299*R + 0.587*G + 0.114*B).astype(np.uint8): the double-precision sum,
\* truncated.  The sum is the exact value except where the exact value is an
\* integer and the floating-point sum falls just below it (FloatShort).
\* Defined for gray pixels and the palette.
Luminance(p) ==
    LET exact == 299 * p[1] + 587 * p[2] + 114 * p[3]
    IN  IF exact % 1000 = 0 /\ FloatShort(p)
        THEN (exact \div 1000) - 1
        ELSE exact \div 1000

Red(p) == p[1]
Green(p) == p[2]
Blue(p) == p[3]

\* the plane a histogram is taken of: image[:, :, k] or the luminance
PlaneValue(p, plane) ==
    CASE plane = "red" -> Red(p)
      [] plane = "green" -> Green(p)
      [] plane = "blue" -> Blue(p)
      [] plane = "luminance" -> Luminance(p)

\* Number of pixels of img whose value in the plane is v
CountValue(img, plane, v) ==
    SumSeq([i \in 1..Len(img.runs) |->
              IF PlaneValue(img.runs[i].rgb, plane) = v
              THEN img.runs[i].n ELSE 0])

\* The spacing of single-precision floats at n (n below 2^30): 1 up to
\* 2^24, doubling with every further power of two.
RECURSIVE Float32Ulp(_, _)
Float32Ulp(n, ulp) ==
    IF ulp >= 64 \/ n <= 16777216 * ulp THEN ulp ELSE Float32Ulp(n, 2 * ulp)

\* The integer n converted to np.float32 (round to nearest, ties to even)
\* and back with astype(int).
Float32(n) ==
    LET ulp == Float32Ulp(n, 1)
    IN  RoundDiv(n, ulp) * ulp

\* cv2.calcHist([plane], [0], None, [256], [0, 256]).flatten().astype(int):
\* bin v counts the pixels of value v, v in 0..255; OpenCV counts in 32-bit
\* integers and returns the histogram converted to float32.
CalcHist(img, plane) == [v \in 0..255 |-> Float32(CountValue(img, plane, v))]

calculate_histogram(img) ==
    [ red       |-> CalcHist(img, "red"),
      green     |-> CalcHist(img, "green"),
      blue      |-> CalcHist(img, "blue"),
      luminance |-> CalcHist(img, "luminance") ]

(***************************************************************************)
(* TonalAnalyzer (analysis/tonal.py)                                       *)
(***************************************************************************)
IsShadow(l) == l <= 64
IsMidtoneOpen192(l) == l > 64 /\ l < 192
IsMidtone(l) == l > 64 /\ l < 193
IsHighlight(l) == l >= 193

InBand(l, band) ==
    CASE band = "shadows" -> IsShadow(l)
      [] band = "midtones" -> IsMidtone(l)
      [] band = "highlights" -> IsHighlight(l)

\* np.sum(mask): number of pixels whose luminance lies in the band
CountLum(img, band) ==
    SumSeq([i \in 1..Len(img.runs) |->
              IF InBand(Luminance(img.runs[i].rgb), band)
              THEN img.runs[i].n ELSE 0])

analyze_tonal_properties(img, histogram_lum) ==
    [ total_pixels      |-> NumPixels(img),
      shadows_pixels    |-> CountLum(img, "shadows"),
      midtones_pixels   |-> CountLum(img, "midtones"),
      highlights_pixels |-> CountLum(img, "highlights"),
      clipped_shadows   |-> histogram_lum[0],
      clipped_highlights |-> histogram_lum[255] ]

(***************************************************************************)
(* Histogram / tonal pipeline of analyze_image_file (tools.py:204-209)     *)
(***************************************************************************)
\* Buffers of 4096 x 4096 = 2^24 and 4097 x 4097 = 2^24 + 8193 pixels: a
\* black frame of each size, and a black frame with a white corner.
BigImages ==
    { [h |-> 4096, w |-> 4096,
       runs |-> <<[rgb |-> Px(0, 0, 0), n |-> 16777216]>>],
      [h |-> 4097, w |-> 4097,
       runs |-> <<[rgb |-> Px(0, 0, 0), n |-> 16785409]>>],
      [h |-> 4097, w |-> 4097,
       runs |-> <<[rgb |-> Px(0, 0, 0), n |-> 16777217],
                  [rgb |-> Px(255, 255, 255), n |-> 8192]>>] }

HistImages == SmallImages \cup BigImages

IdleHist == hist_result = None /\ tonal_analysis = None
IdleColor == n_colors = None /\ kmeans_seeded = None /\ dominant_calls = None
IdleCast == avg_rgb = None /\ color_cast = None
IdleExif == exif_file = None /\ exif_dict = None
IdleInfo == info_file = None /\ image_info = None
IdleTool ==
    tool_file = None /\ tool_call = None /\ tool_steps = None /\ tool_result = None
IdleFn == fn_args = None /\ fn_result = None

InitHist ==
    /\ pc = "decoded"
    /\ image \in HistImages
    /\ IdleHist
    /\ IdleColor
    /\ IdleCast
    /\ IdleExif /\ IdleInfo /\ IdleTool /\ IdleFn

CalculateHistogram ==
    /\ pc = "decoded"
    /\ hist_result' = calculate_histogram(image)
    /\ pc' = "histogram"
    /\ UNCHANGED <<image, tonal_analysis, colorVars, castVars, exifVars, infoVars, toolVars, fnVars>>

AnalyzeTonal ==
    /\ pc = "histogram"
    /\ tonal_analysis' = analyze_tonal_properties(image, hist_result.luminance)
    /\ pc' = "tonal"
    /\ UNCHANGED <<image, hist_result, colorVars, castVars, exifVars, infoVars, toolVars, fnVars>>

NextHist == CalculateHistogram \/ AnalyzeTonal

SpecHist == InitHist /\ [][NextHist]_vars

(***************************************************************************)
(* C2, C3, C22                                                             *)
(***************************************************************************)
SumHist(h) == SumRange(h, 0, 255)

WellFormedHist(h) ==
    /\ DOMAIN h = 0..255
    /\ \A v \in 0..255 : h[v] \in Nat

\* C2: for every 8-bit RGB buffer of H x W pixels, calculate_histogram
\* returns four sequences (red, green, blue, luminance) of exactly 256
\* non-negative integer counts, each summing to H*W.
C2_HistogramSums ==
    pc \in {"histogram", "tonal"} =>
        \A ch \in {"red", "green", "blue", "luminance"} :
            /\ WellFormedHist(hist_result[ch])
            /\ SumHist(hist_result[ch]) = image.h * image.w

\* a histogram of a buffer holding a luminance-255 pixel and another pixel
C2_Witness ==
    /\ pc = "histogram"
    /\ image.h * image.w = 2
    /\ hist_result.luminance[255] = 1
    /\ hist_result.red[255] = 2

\* the number of pixels at each truncated luminance, counted exactly
LuminanceCounts(img) == [v \in 0..255 |-> CountValue(img, "luminance", v)]

\* C3: every pixel's truncated luminance lies in exactly one of the bands
\* shadows (<= 64), midtones (65..192), highlights (>= 193), so the three
\* band counts of analyze_tonal_properties add up to H*W.
C3_BandsPartition ==
    pc = "tonal" =>
        /\ tonal_analysis.shadows_pixels
             = SumRange(LuminanceCounts(image), 0, 64)
        /\ tonal_analysis.midtones_pixels
             = SumRange(LuminanceCounts(image), 65, 192)
        /\ tonal_analysis.highlights_pixels
             = SumRange(LuminanceCounts(image), 193, 255)
        /\ tonal_analysis.shadows_pixels + tonal_analysis.midtones_pixels
             + tonal_analysis.highlights_pixels = image.h * image.w

\* a tonal result for a buffer with one pixel at luminance 192 (midtone
\* edge) and one at 193 (highlight edge)
C3_Witness ==
    /\ pc = "tonal"
    /\ tonal_analysis.midtones_pixels = 1
    /\ tonal_analysis.highlights_pixels = 1
    /\ hist_result.luminance[192] = 1
    /\ hist_result.luminance[193] = 1

\* C22: in a full analysis the clipping figures that analyze_tonal_properties
\* takes from luminance-histogram bins 0 and 255 equal a live recount over
\* the luminance values it classifies itself: clipped_shadows is the number
\* of pixels with truncated luminance 0, clipped_highlights the number with
\* truncated luminance 255.
C22_ClippingEqualsRecount ==
    pc = "tonal" =>
        /\ tonal_analysis.clipped_shadows = LuminanceCounts(image)[0]
        /\ tonal_analysis.clipped_highlights = LuminanceCounts(image)[255]


(***************************************************************************)
(* ColorAnalyzer: dominant colours (analysis/color.py)                     *)
(***************************************************************************)
SampleLimit == 10000

\* Buffers around the sampling limit: 100 x 100 = 10000 pixels (not
\* sampled), 73 x 137 = 10001 pixels (sampled).
LargeImages ==
    { [h |-> 100, w |-> 100,
       runs |-> <<[rgb |-> Px(255, 0, 0), n |-> 5000],
                  [rgb |-> Px(0, 0, 0), n |-> 5000]>>],
      [h |-> 73, w |-> 137,
       runs |-> <<[rgb |-> Px(128, 128, 128), n |-> 10001]>>],
      [h |-> 73, w |-> 137,
       runs |-> <<[rgb |-> Px(255, 0, 0), n |-> 5001],
                  [rgb |-> Px(0, 0, 0), n |-> 5000]>>] }

RECURSIVE SumOver(_, _)
SumOver(f, S) ==
    IF S = {} THEN 0
    ELSE LET x == CHOOSE y \in S : TRUE
         IN  f[x] + SumOver(f, S \ {x})

\* image.reshape(-1, 3) as a bag: colour -> number of pixels
PixelBag(img) ==
    LET cols == { img.runs[i].rgb : i \in 1..Len(img.runs) }
    IN  [c \in cols |->
           SumSeq([i \in 1..Len(img.runs) |->
                     IF img.runs[i].rgb = c THEN img.runs[i].n ELSE 0])]

BagSize(bag) == SumOver(bag, DOMAIN bag)

\* np.random.choice(len(pixels), 10000, replace=False) with numpy's global,
\* unseeded generator: any 10000 of the pixels.  The bags that can result.
SubBags(bag, size) ==
    LET excess == BagSize(bag) - size
        drops == { d \in [DOMAIN bag -> 0..excess] :
                     /\ SumOver(d, DOMAIN bag) = excess
                     /\ \A c \in DOMAIN bag : d[c] <= bag[c] }
    IN  { [c \in { x \in DOMAIN bag : bag[x] - d[x] > 0 } |-> bag[c] - d[c]]
          : d \in drops }

\* lines 76-81: the pixel populations KMeans may be fitted on
AllPixelsAsSample(img) == { PixelBag(img) }

SampledPixels(img) ==
    IF NumPixels(img) > SampleLimit
    THEN SubBags(PixelBag(img), SampleLimit)
    ELSE { PixelBag(img) }

ColourKey(c) == 65536 * c[1] + 256 * c[2] + c[3]

\* the distinct colours of a bag in ascending key order
RECURSIVE SortedColours(_)
SortedColours(S) ==
    IF S = {} THEN <<>>
    ELSE LET m == CHOOSE x \in S : \A y \in S : ColourKey(x) <= ColourKey(y)
         IN  <<m>> \o SortedColours(S \ {m})

SqDist(a, b) ==
    (a[1] - b[1]) * (a[1] - b[1]) + (a[2] - b[2]) * (a[2] - b[2])
      + (a[3] - b[3]) * (a[3] - b[3])

MinKey(G) == CHOOSE k \in { ColourKey(c) : c \in G } :
                \A c \in G : k <= ColourKey(c)

\* colour sets in ascending order of their smallest member
RECURSIVE SortedGroups(_)
SortedGroups(GS) ==
    IF GS = {} THEN <<>>
    ELSE LET g == CHOOSE x \in GS : \A y \in GS : MinKey(x) <= MinKey(y)
         IN  <<g>> \o SortedGroups(GS \ {g})

\* Inertia added by putting colours p[1] and p[2] in one cluster is
\* w1 * w2 * |p1 - p2|^2 / (w1 + w2); PairBefore orders two such pairs by
\* that cost, equal costs by colour key.
PairCostTimes(bag, p, k) == bag[p[1]] * bag[p[2]] * SqDist(p[1], p[2]) * k
PairWeight(bag, p) == bag[p[1]] + bag[p[2]]
PairBefore(bag, p, q) ==
    LET cp == PairCostTimes(bag, p, PairWeight(bag, q))
        cq == PairCostTimes(bag, q, PairWeight(bag, p))
    IN  \/ cp < cq
        \/ cp = cq /\ ColourKey(p[1]) < ColourKey(q[1])
        \/ cp = cq /\ ColourKey(p[1]) = ColourKey(q[1])
                   /\ ColourKey(p[2]) < ColourKey(q[2])

\* The partition of the distinct colours into clusters that KMeans settles
\* on (the minimum of the within-cluster squared distance), as a sequence
\* of colour sets ordered by smallest member:
\*   n = 1: one cluster; D <= n: one cluster per distinct colour;
\*   D = n + 1: the cheapest pair shares a cluster.
\* (Buffers of the model have at most MaxPixels distinct colours when
\* small and at most 2 when large.)
KMeansGroups(bag, n) ==
    LET S == DOMAIN bag
        D == Cardinality(S)
    IN  IF n = 1 THEN << S >>
        ELSE IF D <= n THEN SortedGroups({ {c} : c \in S })
        ELSE LET pairs == { pr \in S \X S : ColourKey(pr[1]) < ColourKey(pr[2]) }
                 best == CHOOSE pr \in pairs :
                           \A q \in pairs \ {pr} : PairBefore(bag, pr, q)
             IN  SortedGroups({ {best[1], best[2]} }
                                \cup { {c} : c \in S \ {best[1], best[2]} })

\* KMeans(...).fit raises for n_clusters < 1 (invalid parameter) and for
\* fewer samples than clusters.
KMeansRaises(total, n) == n < 1 \/ total < n

\* cluster_centers_.astype(int) of one cluster: the per-channel mean of its
\* pixels, truncated
GroupCentre(bag, G) ==
    LET W == SumOver(bag, G)
        chan(k) == SumOver([c \in G |-> bag[c] * c[k]], G) \div W
    IN  <<chan(1), chan(2), chan(3)>>

\* The fitted model: for each cluster index 1..n its centre and the number
\* of sample pixels labelled with it.  With random_state=42 the fit is a
\* function of the sample; which index a cluster gets is the library's
\* choice, described by `order`: "ascending" numbers the groups 1, 2, ...,
\* "descending" numbers them n, n-1, ...  A cluster index that receives no
\* pixel (fewer distinct colours than clusters) has a centre that duplicates
\* a sample colour.
KMeansFit(bag, n, order) ==
    LET groups == KMeansGroups(bag, n)
        D == Len(groups)
        slot(j) == IF order = "ascending" THEN j ELSE n + 1 - j
        groupAt(i) == IF order = "ascending" THEN i ELSE n + 1 - i
        first == GroupCentre(bag, groups[1])
    IN  [ centers |-> [i \in 1..n |->
                         IF groupAt(i) \in 1..D
                         THEN GroupCentre(bag, groups[groupAt(i)])
                         ELSE first],
          sizes   |-> [i \in 1..n |->
                         IF groupAt(i) \in 1..D
                         THEN SumOver(bag, groups[groupAt(i)])
                         ELSE 0] ]

\* round(x, 2) of x = 100 * count / total, in hundredths
Percentage(count, total) == RoundDiv(count * 10000, total)

\* np.unique(labels, return_counts=True)[1]: the sizes of the cluster
\* indices that occur among the labels, in ascending index order
NonZero(s) ==
    LET Occurs(size) == size # 0
    IN  SelectSeq(s, Occurs)

\* list.sort(key=percentage, reverse=True): stable, descending; an entry's
\* place is one more than the number of entries that go before it
SortDesc(s) ==
    LET n == Len(s)
        place == [j \in 1..n |->
                    1 + Cardinality({ k \in 1..n :
                          \/ s[k].percentage > s[j].percentage
                          \/ s[k].percentage = s[j].percentage /\ k < j })]
    IN  [i \in 1..n |-> s[CHOOSE j \in 1..n : place[j] = i]]

\* lines 115-123: the fallback, the mean colour of the fitted pixels at 100%
FallbackColors(bag) ==
    << [rgb |-> GroupCentre(bag, DOMAIN bag), percentage |-> 10000] >>

\* lines 84-113: zip(centers, counts) pairs the i-th centre with the i-th
\* count of np.unique and stops at the shorter of the two
ClusteredColors(bag, n, order) ==
    LET fit == KMeansFit(bag, n, order)
        counts == NonZero(fit.sizes)
        total == BagSize(bag)
        k == Min2(n, Len(counts))
    IN  SortDesc([i \in 1..k |->
                    [rgb |-> fit.centers[i],
                     percentage |-> Percentage(counts[i], total)]])

\* extract_dominant_colors on the pixels `bag` that were kept by lines
\* 76-81.  No exception leaves the function: the outcome is always a
\* returned list.
extract_dominant_colors(bag, n, order) ==
    [ outcome |-> "return",
      value   |-> IF KMeansRaises(BagSize(bag), n)
                  THEN FallbackColors(bag)
                  ELSE ClusteredColors(bag, n, order) ]

(***************************************************************************)
(* Repeated dominant-colour extraction on one buffer                       *)
(***************************************************************************)
ColorImages == { img \in SmallImages : img.h = 1 } \cup LargeImages
ColorCounts == { -1, 0, 1, 2, 3, 5 }
KMeansOrders == { "ascending", "descending" }

InitColor ==
    /\ pc = "decoded"
    /\ image \in ColorImages
    /\ n_colors \in ColorCounts
    /\ kmeans_seeded \in KMeansOrders
    /\ dominant_calls = <<>>
    /\ IdleHist
    /\ IdleCast
    /\ IdleExif /\ IdleInfo /\ IdleTool /\ IdleFn

ExtractDominantColors ==
    /\ pc = "decoded"
    /\ Len(dominant_calls) < MaxCalls
    /\ \E pixels \in SampledPixels(image) :
         dominant_calls' =
             Append(dominant_calls,
                    extract_dominant_colors(pixels, n_colors, kmeans_seeded))
    /\ UNCHANGED <<pc, image, n_colors, kmeans_seeded, histVars, castVars, exifVars, infoVars, toolVars, fnVars>>

NextColor == ExtractDominantColors

SpecColor == InitColor /\ [][NextColor]_vars

(***************************************************************************)
(* C1, C4, C9                                                              *)
(***************************************************************************)
\* C1: calling the engine twice on the identical pixel buffer returns
\* identical output on both calls; in particular extract_dominant_colors on
\* a buffer of more than 10,000 pixels returns the same colours and
\* percentages on every call.
C1_RepeatedCallsAgree ==
    dominant_calls # None =>
        \A i, j \in 1..Len(dominant_calls) :
            dominant_calls[i] = dominant_calls[j]

\* C4: extract_dominant_colors returns exactly n_colors entries whenever
\* clustering completes without raising, and exactly 1 entry when
\* clustering raises; no other length occurs.
C4_ResultLength ==
    dominant_calls # None =>
        \A i \in 1..Len(dominant_calls) :
            Len(dominant_calls[i].value) =
                IF KMeansRaises(Min2(NumPixels(image), SampleLimit), n_colors)
                THEN 1
                ELSE n_colors

\* C9: n_colors <= 0 is rejected with an InvalidParameter error rather than
\* producing a colour result.
C9_NonPositiveCountRejected ==
    (dominant_calls # None /\ n_colors <= 0) =>
        \A i \in 1..Len(dominant_calls) :
            /\ dominant_calls[i].outcome = "raise"
            /\ dominant_calls[i].error = "InvalidParameter"

(***************************************************************************)
(* ColorAnalyzer: colour cast (analysis/color.py)                          *)
(***************************************************************************)
\* Channel means are fixed-point numbers: the integer a stands for the mean
\* a / MeanScale.  With T = 3 * max(avg_all, 1) in the same unit, the
\* deviation of channel x is (3x - T) / T.
CastTotal(avg_r, avg_g, avg_b) ==
    Max2(avg_r + avg_g + avg_b, 3 * MeanScale)

\* lines 143-145: numerator of a channel's deviation (denominator CastTotal)
Deviation(x, T) == 3 * x - T

\* round(min(severity, 1.0), 3), in thousandths
Severity(dev, T) ==
    IF Abs(dev) >= T THEN 1000 ELSE RoundDiv(1000 * Abs(dev), T)

\* lines 126-176, a variant whose first test compares red with green only
DetectColorCastRedOverGreen(avg_r, avg_g, avg_b) ==
    LET T  == CastTotal(avg_r, avg_g, avg_b)
        rd == Deviation(avg_r, T)
        gd == Deviation(avg_g, T)
        bd == Deviation(avg_b, T)
        max_deviation == Max2(Abs(rd), Max2(Abs(gd), Abs(bd)))
    IN  IF 20 * max_deviation < T      \* max_deviation < 0.05
        THEN [detected |-> FALSE, direction |-> "none", severity |-> 0]
        ELSE IF Abs(rd) > Abs(gd)
        THEN [detected |-> TRUE,
              direction |-> IF rd > 0 THEN "red" ELSE "cyan",
              severity |-> Severity(rd, T)]
        ELSE IF Abs(gd) > Abs(bd)
        THEN [detected |-> TRUE,
              direction |-> IF gd > 0 THEN "green" ELSE "magenta",
              severity |-> Severity(gd, T)]
        ELSE [detected |-> TRUE,
              direction |-> IF bd > 0 THEN "blue" ELSE "yellow",
              severity |-> Severity(bd, T)]

\* detect_color_cast, lines 126-176
detect_color_cast(avg_r, avg_g, avg_b) ==
    LET T  == CastTotal(avg_r, avg_g, avg_b)
        rd == Deviation(avg_r, T)
        gd == Deviation(avg_g, T)
        bd == Deviation(avg_b, T)
        max_deviation == Max2(Abs(rd), Max2(Abs(gd), Abs(bd)))
    IN  IF 20 * max_deviation < T      \* max_deviation < 0.05
        THEN [detected |-> FALSE, direction |-> "none", severity |-> 0]
        ELSE IF Abs(rd) > Abs(gd) /\ Abs(rd) > Abs(bd)
        THEN [detected |-> TRUE,
              direction |-> IF rd > 0 THEN "red" ELSE "cyan",
              severity |-> Severity(rd, T)]
        ELSE IF Abs(gd) > Abs(bd)
        THEN [detected |-> TRUE,
              direction |-> IF gd > 0 THEN "green" ELSE "magenta",
              severity |-> Severity(gd, T)]
        ELSE [detected |-> TRUE,
              direction |-> IF bd > 0 THEN "blue" ELSE "yellow",
              severity |-> Severity(bd, T)]

\* Means the engine is given: every neutral integer mean 0..255, neutral
\* means below one level, and unbalanced triples.
NeutralMeans ==
    { m * MeanScale : m \in 0..255 }
      \cup { 1, MeanScale \div 2, MeanScale - 4, MeanScale - 6 }

CastLevels == { 0, 2 * MeanScale, 100 * MeanScale, 104 * MeanScale,
                105 * MeanScale, 110 * MeanScale, 255 * MeanScale }

CastInputs ==
    { <<m, m, m>> : m \in NeutralMeans }
      \cup (CastLevels \X CastLevels \X CastLevels)

InitCast ==
    /\ pc = "means"
    /\ image = None
    /\ avg_rgb \in CastInputs
    /\ color_cast = None
    /\ IdleHist
    /\ IdleColor
    /\ IdleExif /\ IdleInfo /\ IdleTool /\ IdleFn

DetectColorCast ==
    /\ pc = "means"
    /\ color_cast' = detect_color_cast(avg_rgb[1], avg_rgb[2], avg_rgb[3])
    /\ pc' = "cast"
    /\ UNCHANGED <<image, avg_rgb, histVars, colorVars, exifVars, infoVars, toolVars, fnVars>>

NextCast == DetectColorCast

SpecCast == InitCast /\ [][NextCast]_vars

(***************************************************************************)
(* C5                                                                      *)
(***************************************************************************)
\* C5: detect_color_cast returns detected=False, direction "none",
\* severity 0.0 whenever the three channel means are equal, for every mean
\* value in 0..255 including 0 (an all-black buffer).
C5_NeutralNoCast ==
    (pc = "cast" /\ avg_rgb[1] = avg_rgb[2] /\ avg_rgb[2] = avg_rgb[3]) =>
        color_cast = [detected |-> FALSE, direction |-> "none", severity |-> 0]

(***************************************************************************)
(* MetadataExtractor: EXIF (analysis/metadata.py)                          *)
(*                                                                         *)
(* The printable form str(tag) of a tag is kept split at its "/"           *)
(* characters into parts; a part is an integer literal, a literal with a   *)
(* decimal point, or text that float() rejects.  A GPS coordinate          *)
(* "[d, m, s]" is kept split at its commas into components, each a         *)
(* sequence of parts.  An absent tag is the empty sequence.  An optional   *)
(* result field is <<>> (None) or <<value>>.                               *)
(***************************************************************************)
IntLit(n) == [k |-> "int", n |-> n, d |-> 1]
DecLit(n, d) == [k |-> "dec", n |-> n, d |-> d]
Txt == [k |-> "txt", n |-> 0, d |-> 1]

Absent == <<>>
Unset == <<>>
Some(x) == <<x>>

\* outcome of an expression: a rational n/d, or an exception
Ok(n, d) == [ok |-> TRUE, n |-> n, d |-> d, exc |-> "none"]
Raise(e) == [ok |-> FALSE, n |-> 0, d |-> 1, exc |-> e]

\* float(part)
Float(part) ==
    IF part.k = "txt" THEN Raise("ValueError") ELSE Ok(part.n, part.d)

\* int(str(tag)): only a lone integer literal converts
IntOfStr(val) ==
    IF Len(val) = 1 /\ val[1].k = "int" THEN Ok(val[1].n, 1)
    ELSE Raise("ValueError")

\* the quotient float(num) / float(denom) of two converted parts
Quotient(a, b) ==
    IF ~a.ok THEN a
    ELSE IF ~b.ok THEN b
    ELSE IF b.n = 0 THEN Raise("ZeroDivisionError")
    ELSE Ok(a.n * b.d, a.d * b.n)

\* lines 110-115, 128-133, 167-172: `if "/" in val: num, denom =
\* val.split("/"); float(num) / float(denom)  else: float(val)`
ParseRatio(val) ==
    IF Len(val) >= 2
    THEN IF Len(val) # 2 THEN Raise("ValueError")   \* unpacking fails
         ELSE Quotient(Float(val[1]), Float(val[2]))
    ELSE Float(val[1])

\* _parse_fraction, lines 221-227 (value.strip() leaves the parts as they are)
_parse_fraction(value) ==
    IF Len(value) >= 2
    THEN IF Len(value) # 2 THEN Raise("ValueError")
         ELSE Quotient(Float(value[1]), Float(value[2]))
    ELSE Float(value[1])

\* int(x) of a non-negative rational: truncation
Trunc(q) == q.n \div q.d

\* lines 187-218, a variant that negates for the reference S only
ConvertGpsSouthOnly(gps_coord, ref) ==
    IF Len(gps_coord) # 3 THEN Raise("ValueError")
    ELSE LET degrees == _parse_fraction(gps_coord[1])
             minutes == _parse_fraction(gps_coord[2])
             seconds == _parse_fraction(gps_coord[3])
         IN  IF ~degrees.ok THEN degrees
             ELSE IF ~minutes.ok THEN minutes
             ELSE IF ~seconds.ok THEN seconds
             ELSE LET D == degrees.d * minutes.d * seconds.d
                      N == degrees.n * 3600 * minutes.d * seconds.d
                             + minutes.n * 60 * degrees.d * seconds.d
                             + seconds.n * degrees.d * minutes.d
                      whole == N \div (3600 * D)
                      rest == N % (3600 * D)
                      hundredths == (rest * 100) \div (36 * D)
                      left == (rest * 100) % (36 * D)
                      micro == whole * 1000000 + hundredths * 100
                                 + RoundDiv(left * 100, 36 * D)
                  IN  Ok(IF ref \in {"S"} THEN -micro ELSE micro, 1)

\* _convert_gps_to_decimal, lines 187-218; the value is in millionths of a
\* degree (round(decimal, 6)).  With N / (3600 D) = deg + min/60 + sec/3600
\* the millionths are split into whole degrees, whole ten-thousandths and
\* the rounded remainder, so that no intermediate product leaves 32 bits.
_convert_gps_to_decimal(gps_coord, ref) ==
    IF Len(gps_coord) # 3 THEN Raise("ValueError")
    ELSE LET degrees == _parse_fraction(gps_coord[1])
             minutes == _parse_fraction(gps_coord[2])
             seconds == _parse_fraction(gps_coord[3])
         IN  IF ~degrees.ok THEN degrees
             ELSE IF ~minutes.ok THEN minutes
             ELSE IF ~seconds.ok THEN seconds
             ELSE LET D == degrees.d * minutes.d * seconds.d
                      N == degrees.n * 3600 * minutes.d * seconds.d
                             + minutes.n * 60 * degrees.d * seconds.d
                             + seconds.n * degrees.d * minutes.d
                      whole == N \div (3600 * D)
                      rest == N % (3600 * D)
                      hundredths == (rest * 100) \div (36 * D)
                      left == (rest * 100) % (36 * D)
                      micro == whole * 1000000 + hundredths * 100
                                 + RoundDiv(left * 100, 36 * D)
                  IN  Ok(IF ref \in {"S", "W"} THEN -micro ELSE micro, 1)

\* str.strip() of a string kept as a sequence of words, " " being blank
RECURSIVE LStrip(_)
LStrip(s) == IF s # <<>> /\ Head(s) = " " THEN LStrip(Tail(s)) ELSE s

RECURSIVE RStrip(_)
RStrip(s) ==
    IF s # <<>> /\ s[Len(s)] = " " THEN RStrip(SubSeq(s, 1, Len(s) - 1)) ELSE s

Strip(s) == RStrip(LStrip(s))

\* datetime.strptime(s, "%Y:%m:%d %H:%M:%S"): a date token carries fmt
\* (whether the text has that layout) and its six numbers
Date(y, mo, d, h, mi, sec) ==
    [fmt |-> TRUE, y |-> y, mo |-> mo, d |-> d, h |-> h, mi |-> mi, s |-> sec]
TxtDate == [fmt |-> FALSE, y |-> 0, mo |-> 0, d |-> 0, h |-> 0, mi |-> 0, s |-> 0]

IsLeap(y) == (y % 4 = 0 /\ y % 100 # 0) \/ y % 400 = 0
DaysIn(y, mo) ==
    IF mo = 2 THEN (IF IsLeap(y) THEN 29 ELSE 28)
    ELSE IF mo \in {4, 6, 9, 11} THEN 30 ELSE 31

Strptime(t) ==
    /\ t.fmt
    /\ t.y \in 1..9999 /\ t.mo \in 1..12 /\ t.d \in 1..DaysIn(t.y, t.mo)
    /\ t.h \in 0..23 /\ t.mi \in 0..59 /\ t.s \in 0..61

\* lines 137-145: ISO 8601 on success, the raw string otherwise
DateTaken(t) ==
    IF Strptime(t) THEN [form |-> "iso8601", text |-> t]
    ELSE [form |-> "raw", text |-> t]

TagNames ==
    { "Image Make", "Image Model", "EXIF LensModel", "EXIF ISOSpeedRatings",
      "EXIF FNumber", "EXIF ExposureTime", "EXIF FocalLength",
      "EXIF DateTimeOriginal", "Image DateTime", "GPS GPSLatitude",
      "GPS GPSLatitudeRef", "GPS GPSLongitude", "GPS GPSLongitudeRef",
      "GPS GPSAltitude", "Thumbnail Compression" }

\* k.startswith("Thumbnail")
IsThumbnail(k) == k \in { "Thumbnail Compression" }

\* line 81: the raw tag map; `error` is the "_error" entry of line 182
RawTags(tags, err) ==
    [ entries |-> [k \in { x \in TagNames : tags[x] # Absent /\ ~IsThumbnail(x) }
                     |-> tags[k]],
      error |-> err ]

\* lines 147-178: the GPS block.  `gps` is the field, `escaped` the
\* exception that leaves the block (not ValueError / TypeError).
GpsBlock(tags) ==
    LET lat_ref == IF tags["GPS GPSLatitudeRef"] # Absent
                   THEN tags["GPS GPSLatitudeRef"][1] ELSE "N"
        lon_ref == IF tags["GPS GPSLongitudeRef"] # Absent
                   THEN tags["GPS GPSLongitudeRef"][1] ELSE "E"
        lat == _convert_gps_to_decimal(tags["GPS GPSLatitude"], lat_ref)
        lon == _convert_gps_to_decimal(tags["GPS GPSLongitude"], lon_ref)
        alt == ParseRatio(tags["GPS GPSAltitude"])
        failed == IF ~lat.ok THEN lat ELSE lon
    IN  IF tags["GPS GPSLatitude"] = Absent \/ tags["GPS GPSLongitude"] = Absent
        THEN [gps |-> Unset, escaped |-> Unset]
        ELSE IF ~lat.ok \/ ~lon.ok
        THEN [gps |-> Unset,
              escaped |-> IF failed.exc \in {"ValueError", "TypeError"}
                          THEN Unset ELSE Some(failed.exc)]
        ELSE [gps |-> Some([latitude |-> lat.n, longitude |-> lon.n,
                            altitude |->
                              IF tags["GPS GPSAltitude"] # Absent /\ alt.ok
                              THEN Some(RoundDiv(100 * alt.n, alt.d))
                              ELSE Unset]),
              escaped |-> Unset]

\* _extract_exif, lines 53-184.  file.readable: open() and
\* exifread.process_file succeed.
_extract_exif(file) ==
    LET tags == file.tags
        make == tags["Image Make"]
        model == tags["Image Model"]
        lens == tags["EXIF LensModel"]
        iso == IntOfStr(tags["EXIF ISOSpeedRatings"])
        fnumber == ParseRatio(tags["EXIF FNumber"])
        focal == ParseRatio(tags["EXIF FocalLength"])
        date_taken == IF tags["EXIF DateTimeOriginal"] # Absent
                      THEN tags["EXIF DateTimeOriginal"]
                      ELSE tags["Image DateTime"]
        gps == GpsBlock(tags)
    IN  IF ~file.readable
        THEN [ camera |-> Unset, lens |-> Unset, iso |-> Unset,
               aperture |-> Unset, shutter_speed |-> Unset,
               focal_length |-> Unset, date_taken |-> Unset, gps |-> Unset,
               raw |-> [entries |-> <<>>, error |-> Some("OSError")] ]
        ELSE
        [ camera |->
            IF make # Absent /\ model # Absent
            THEN Some(Strip(make) \o <<" ">> \o Strip(model))
            ELSE IF model # Absent THEN Some(Strip(model)) ELSE Unset,
          lens |-> IF lens # Absent THEN Some(Strip(lens)) ELSE Unset,
          iso |->
            IF tags["EXIF ISOSpeedRatings"] # Absent /\ iso.ok
            THEN Some(iso.n) ELSE Unset,
          aperture |->
            IF tags["EXIF FNumber"] # Absent /\ fnumber.ok
            THEN Some(RoundDiv(10 * fnumber.n, fnumber.d)) ELSE Unset,
          shutter_speed |->
            IF tags["EXIF ExposureTime"] # Absent
            THEN Some(tags["EXIF ExposureTime"]) ELSE Unset,
          focal_length |->
            IF tags["EXIF FocalLength"] # Absent /\ focal.ok
            THEN Some(Trunc(focal)) ELSE Unset,
          date_taken |->
            IF date_taken # Absent THEN Some(DateTaken(date_taken[1]))
            ELSE Unset,
          gps |-> gps.gps,
          raw |-> RawTags(tags, gps.escaped) ]

(***************************************************************************)
(* Files given to _extract_exif: a tag table is one of two base tables     *)
(* (no tags at all, or a complete well-formed set) with at most MaxVaried  *)
(* tags replaced by another value of that tag.                             *)
(***************************************************************************)
GoodCoord == << <<IntLit(41)>>, <<IntLit(53)>>, <<IntLit(2334), IntLit(100)>> >>

TagValues(k) ==
    CASE k = "Image Make" -> { Absent, <<"Canon", " ">> }
      [] k = "Image Model" -> { Absent, <<"EOS">> }
      [] k = "EXIF LensModel" -> { Absent, <<" ", "RF50">> }
      [] k = "EXIF ISOSpeedRatings" -> { Absent, <<IntLit(400)>>, <<Txt>>,
                                         <<DecLit(4000, 10)>> }
      [] k = "EXIF FNumber" ->
            { Absent, <<IntLit(28), IntLit(10)>>, <<DecLit(45, 10)>>,
              <<IntLit(28), IntLit(0)>>, <<IntLit(28), Txt>> }
      [] k = "EXIF ExposureTime" -> { Absent, <<IntLit(1), IntLit(250)>> }
      [] k = "EXIF FocalLength" ->
            { Absent, <<IntLit(105), IntLit(2)>>, <<IntLit(50), IntLit(0)>>,
              <<Txt>>, <<IntLit(1), IntLit(2), IntLit(3)>> }
      [] k = "EXIF DateTimeOriginal" ->
            { Absent, <<Date(2023, 6, 15, 10, 30, 0)>>,
              <<Date(2023, 2, 29, 10, 30, 0)>>, <<TxtDate>> }
      [] k = "Image DateTime" -> { Absent, <<Date(2024, 2, 29, 8, 0, 0)>> }
      [] k = "GPS GPSLatitude" ->
            { Absent, GoodCoord,
              << <<IntLit(41)>>, <<IntLit(53)>> >>,
              << <<IntLit(41)>>, <<IntLit(53)>>, <<Txt>> >>,
              << <<IntLit(41)>>, <<IntLit(53)>>, <<IntLit(23), IntLit(0)>> >> }
      [] k = "GPS GPSLatitudeRef" -> { Absent, <<"N">>, <<"S">> }
      [] k = "GPS GPSLongitude" ->
            { Absent,
              << <<IntLit(12)>>, <<DecLit(295, 10)>>, <<IntLit(0)>> >>,
              << <<IntLit(0), IntLit(0)>>, <<IntLit(29)>>, <<IntLit(6)>> >> }
      [] k = "GPS GPSLongitudeRef" -> { Absent, <<"W">> }
      [] k = "GPS GPSAltitude" ->
            { Absent, <<IntLit(12345), IntLit(100)>>, <<IntLit(1), IntLit(0)>>,
              <<Txt>> }
      [] k = "Thumbnail Compression" -> { Absent, <<"JPEG">> }

NoTags == [k \in TagNames |-> Absent]

GoodTags ==
    [k \in TagNames |->
        CASE k = "Image Make" -> <<"Canon", " ">>
          [] k = "Image Model" -> <<"EOS">>
          [] k = "EXIF LensModel" -> <<" ", "RF50">>
          [] k = "EXIF ISOSpeedRatings" -> <<IntLit(400)>>
          [] k = "EXIF FNumber" -> <<IntLit(28), IntLit(10)>>
          [] k = "EXIF ExposureTime" -> <<IntLit(1), IntLit(250)>>
          [] k = "EXIF FocalLength" -> <<IntLit(105), IntLit(2)>>
          [] k = "EXIF DateTimeOriginal" -> <<Date(2023, 6, 15, 10, 30, 0)>>
          [] k = "Image DateTime" -> <<Date(2024, 2, 29, 8, 0, 0)>>
          [] k = "GPS GPSLatitude" -> GoodCoord
          [] k = "GPS GPSLatitudeRef" -> <<"S">>
          [] k = "GPS GPSLongitude" ->
                << <<IntLit(12)>>, <<DecLit(295, 10)>>, <<IntLit(0)>> >>
          [] k = "GPS GPSLongitudeRef" -> <<"W">>
          [] k = "GPS GPSAltitude" -> <<IntLit(12345), IntLit(100)>>
          [] k = "Thumbnail Compression" -> <<"JPEG">>]

RECURSIVE TagTables(_)
TagTables(n) ==
    IF n = 0 THEN { NoTags, GoodTags }
    ELSE LET T == TagTables(n - 1)
         IN  T \cup UNION { { [t EXCEPT ![k] = v] : v \in TagValues(k) } :
                              <<t, k>> \in T \X TagNames }

ExifFiles ==
    { [readable |-> TRUE, tags |-> t] : t \in TagTables(MaxVaried) }
      \cup { [readable |-> FALSE, tags |-> NoTags] }

InitExif ==
    /\ pc = "file"
    /\ image = None
    /\ IdleHist /\ IdleColor /\ IdleCast /\ IdleInfo /\ IdleTool /\ IdleFn
    /\ exif_file \in ExifFiles
    /\ exif_dict = None

\* extract_metadata line 31: exif_data = _extract_exif(filepath)
ExtractExif ==
    /\ pc = "file"
    /\ exif_dict' = _extract_exif(exif_file)
    /\ pc' = "extracted"
    /\ UNCHANGED <<image, histVars, colorVars, castVars, exif_file, infoVars, toolVars, fnVars>>

NextExif == ExtractExif

SpecExif == InitExif /\ [][NextExif]_vars

(***************************************************************************)
(* C6                                                                      *)
(***************************************************************************)
\* the tag's value is present and its conversion raises
IsMalformed(k, v) ==
    /\ v # Absent
    /\ CASE k = "EXIF ISOSpeedRatings" -> ~IntOfStr(v).ok
         [] k \in {"EXIF FNumber", "EXIF FocalLength", "GPS GPSAltitude"} ->
                ~ParseRatio(v).ok
         [] k \in {"EXIF DateTimeOriginal", "Image DateTime"} -> ~Strptime(v[1])
         [] k \in {"GPS GPSLatitude", "GPS GPSLongitude"} ->
                ~_convert_gps_to_decimal(v, "N").ok
         [] OTHER -> FALSE

RawWithout(raw, k) ==
    [ entries |-> [j \in (DOMAIN raw.entries) \ {k} |-> raw.entries[j]],
      error |-> raw.error ]

\* the field of the record that tag k feeds is unset (the date tags keep
\* the raw string, lines 144-145, and are not asked to be unset here)
FieldUnset(d, k) ==
    CASE k = "EXIF ISOSpeedRatings" -> d.iso = Unset
      [] k = "EXIF FNumber" -> d.aperture = Unset
      [] k = "EXIF FocalLength" -> d.focal_length = Unset
      [] k = "GPS GPSAltitude" -> d.gps = Unset \/ d.gps[1].altitude = Unset
      [] k \in {"GPS GPSLatitude", "GPS GPSLongitude"} -> d.gps = Unset
      [] OTHER -> TRUE

\* every field that tag k does not feed agrees between two records
SameOtherFields(d, e, k) ==
    /\ d.camera = e.camera
    /\ d.lens = e.lens
    /\ d.shutter_speed = e.shutter_speed
    /\ k # "EXIF ISOSpeedRatings" => d.iso = e.iso
    /\ k # "EXIF FNumber" => d.aperture = e.aperture
    /\ k # "EXIF FocalLength" => d.focal_length = e.focal_length
    /\ k \notin {"EXIF DateTimeOriginal", "Image DateTime"} =>
          d.date_taken = e.date_taken
    /\ k \notin {"GPS GPSLatitude", "GPS GPSLongitude", "GPS GPSAltitude"} =>
          d.gps = e.gps
    /\ RawWithout(d.raw, k) = RawWithout(e.raw, k)

\* C6: when exactly one tag of the file is malformed, _extract_exif leaves
\* the field of that tag unset and gives every other field, the raw tag map
\* included, the value it has when the malformed tag is absent from the file.
C6_MalformedTagAbsorbed ==
    (pc = "extracted" /\ exif_file.readable) =>
        \A k \in TagNames :
            ( /\ IsMalformed(k, exif_file.tags[k])
              /\ \A j \in TagNames \ {k} : ~IsMalformed(j, exif_file.tags[j]) )
            => /\ FieldUnset(exif_dict, k)
               /\ SameOtherFields(exif_dict,
                     _extract_exif([exif_file EXCEPT !.tags[k] = Absent]), k)

(***************************************************************************)
(* Python str operations used on paths and messages                        *)
(***************************************************************************)
Char(s, i) == SubSeq(s, i, i)

\* needle in s
Contains(s, needle) ==
    \E i \in 1..(Len(s) - Len(needle) + 1) :
        SubSeq(s, i, i + Len(needle) - 1) = needle

Uppers == "ABCDEFGHIJKLMNOPQRSTUVWXYZ"
Lowers == "abcdefghijklmnopqrstuvwxyz"

Translate(c, from, to) ==
    IF \E i \in 1..Len(from) : Char(from, i) = c
    THEN Char(to, CHOOSE i \in 1..Len(from) : Char(from, i) = c)
    ELSE c

RECURSIVE MapChars(_, _, _, _)
MapChars(s, i, from, to) ==
    IF i > Len(s) THEN ""
    ELSE Translate(Char(s, i), from, to) \o MapChars(s, i + 1, from, to)

\* s.lower(), s.upper()
Lower(s) == MapChars(s, 1, Uppers, Lowers)
Upper(s) == MapChars(s, 1, Lowers, Uppers)

\* index of the last occurrence of the character c in s, 0 if none
LastIndex(s, c) ==
    IF Contains(s, c)
    THEN CHOOSE i \in 1..Len(s) :
            Char(s, i) = c /\ \A j \in (i + 1)..Len(s) : Char(s, j) # c
    ELSE 0

\* Path.suffix: from the last "." of the final component, "" when there is
\* none or when it leads the name
Suffix(path) ==
    LET name == SubSeq(path, LastIndex(path, "/") + 1, Len(path))
        dot == LastIndex(name, ".")
    IN  IF dot <= 1 THEN "" ELSE SubSeq(name, dot, Len(name))

(***************************************************************************)
(* MetadataExtractor: _get_image_info (analysis/metadata.py)               *)
(*                                                                         *)
(* A file is its path and what PIL / rawpy find in it: content is "raster" *)
(* (identified and decodable), "truncated" (identified, header readable,   *)
(* pixel data incomplete), "raw" (readable by rawpy) or "garbage".         *)
(***************************************************************************)
RawExtensions == { ".cr2", ".cr3", ".nef", ".arw", ".dng", ".raf", ".orf" }
RasterExtensions == { ".jpg", ".jpeg", ".png", ".tif", ".tiff", ".webp" }

\* str() of the exceptions raised by rawpy.imread and Image.open
LibRawMessage == "b'Unsupported file format or not RAW file'"
CannotIdentify(path) == "cannot identify image file '" \o path \o "'"
TruncatedMessage == "image file is truncated (12 bytes not processed)"

InfoReturn(dims, mode, depth, space) ==
    [ outcome |-> "return", dimensions |-> dims, color_mode |-> mode,
      bit_depth |-> depth, color_space |-> space, message |-> "" ]
InfoRaise(msg) ==
    [ outcome |-> "raise", dimensions |-> <<0, 0>>, color_mode |-> "",
      bit_depth |-> 0, color_space |-> "", message |-> msg ]

\* lines 262-267
BitDepth(mode) ==
    IF mode \in {"1", "L", "P", "RGB", "RGBA", "CMYK", "YCbCr", "LAB", "HSV"}
    THEN 8
    ELSE IF mode \in {"I", "F", "I;16", "I;16L", "I;16B"} THEN 16 ELSE 8

\* lines 276-289: the color space named by the EXIF ColorSpace tag, Unset
\* when getexif() raises, is empty, or the tag is absent or has another value
ExifColorSpace(exif) ==
    IF exif.getexif # "tags" \/ exif.color_space_tag = Unset THEN Unset
    ELSE IF exif.color_space_tag[1] = 1 THEN Some("sRGB")
    ELSE IF exif.color_space_tag[1] = 2 THEN Some("Adobe RGB")
    ELSE IF exif.color_space_tag[1] = 65535 THEN Some("Uncalibrated")
    ELSE Unset

\* lines 269-293
ColorSpace(f) ==
    LET from_icc == IF f.icc_profile THEN "ICC Profile" ELSE "Unknown"
        from_exif == IF ExifColorSpace(f.exif) # Unset
                     THEN ExifColorSpace(f.exif)[1] ELSE from_icc
    IN  IF from_exif = "Unknown" /\ f.mode = "RGB" THEN "sRGB" ELSE from_exif

\* _get_image_info, lines 230-298
_get_image_info(f) ==
    LET ext == Lower(Suffix(f.path))
    IN  IF ext \in RawExtensions
        THEN IF f.content = "raw"
             THEN InfoReturn(f.size, "Bayer", 14, "Raw")
             ELSE InfoRaise("Failed to read RAW file: " \o LibRawMessage)
        ELSE IF f.content \in {"raster", "truncated"}
             THEN InfoReturn(f.size, f.mode, BitDepth(f.mode), ColorSpace(f))
             ELSE InfoRaise("Failed to read image file: "
                              \o CannotIdentify(f.path))

ImageModes == { "1", "L", "LA", "P", "RGB", "RGBA", "CMYK", "YCbCr", "I;16", "F" }

ExifStates ==
    { [getexif |-> g, color_space_tag |-> Unset] : g \in {"raises", "empty", "tags"} }
      \cup { [getexif |-> "tags", color_space_tag |-> Some(v)] :
               v \in {1, 2, 3, 65535} }

NoExif == [getexif |-> "empty", color_space_tag |-> Unset]

InfoFiles ==
    { [ path |-> "/data/photo.JPG", content |-> "raster", size |-> <<640, 480>>,
        mode |-> m, icc_profile |-> i, exif |-> e ] :
          m \in ImageModes, i \in BOOLEAN, e \in ExifStates }
      \cup { [ path |-> p, content |-> c, size |-> <<6000, 4000>>,
               mode |-> "RGB", icc_profile |-> FALSE, exif |-> NoExif ] :
                 p \in {"/data/photo.tiff", "/data/shot.CR2", "/data/shot.dng"},
                 c \in {"raster", "truncated", "raw", "garbage"} }

InitInfo ==
    /\ pc = "file"
    /\ image = None
    /\ IdleHist /\ IdleColor /\ IdleCast /\ IdleExif /\ IdleTool /\ IdleFn
    /\ info_file \in InfoFiles
    /\ image_info = None

\* extract_metadata line 34
GetImageInfo ==
    /\ pc = "file"
    /\ image_info' = _get_image_info(info_file)
    /\ pc' = "info"
    /\ UNCHANGED <<image, histVars, colorVars, castVars, exifVars, info_file, toolVars, fnVars>>

NextInfo == GetImageInfo

SpecInfo == InitInfo /\ [][NextInfo]_vars

(***************************************************************************)
(* C8                                                                      *)
(***************************************************************************)
\* number of bands of a PIL mode
Bands(mode) ==
    IF mode \in {"RGB", "YCbCr", "LAB", "HSV"} THEN 3
    ELSE IF mode \in {"RGBA", "CMYK"} THEN 4
    ELSE IF mode = "LA" THEN 2 ELSE 1

\* C8: for a raster file the color space is "ICC Profile" whenever an ICC
\* profile is embedded, even next to an EXIF ColorSpace tag; otherwise it is
\* what the EXIF ColorSpace tag names (1, 2, 0xFFFF); otherwise sRGB for a
\* 3-channel image; otherwise "Unknown".
C8_ColorSpacePrecedence ==
    (pc = "info" /\ image_info.outcome = "return"
       /\ image_info.color_mode # "Bayer") =>
        image_info.color_space =
            IF info_file.icc_profile THEN "ICC Profile"
            ELSE IF ExifColorSpace(info_file.exif) # Unset
                 THEN ExifColorSpace(info_file.exif)[1]
            ELSE IF Bands(info_file.mode) = 3 THEN "sRGB"
            ELSE "Unknown"

(***************************************************************************)
(* Tools (tools.py, utils.py)                                              *)
(*                                                                         *)
(* A file is the filepath string handed to the tool (absolute and          *)
(* normalised, so that Path(filepath).resolve() has the same text), what   *)
(* the file system holds there (disk) and, for a regular file, the fields  *)
(* read by _get_image_info.                                                *)
(***************************************************************************)
\* ", ".join(ALL_SUPPORTED_EXTENSIONS), utils.py:77
SupportedList ==
    ".jpg, .jpeg, .png, .tif, .tiff, .webp, .cr2, .cr3, .nef, .arw, .dng, .raf, .orf"

\* validate_filepath, utils.py:47-80
validate_filepath(f) ==
    LET ext == Lower(Suffix(f.path))
        Invalid(msg) == [is_valid |-> FALSE, error_msg |-> msg]
    IN  IF f.path = "" THEN Invalid("Filepath cannot be empty")
        ELSE IF f.disk = "missing" THEN Invalid("File not found: " \o f.path)
        ELSE IF f.disk = "directory"
             THEN Invalid("Path is not a file: " \o f.path)
        ELSE IF f.disk = "unreadable"
             THEN Invalid("Permission denied: cannot read " \o f.path)
        ELSE IF ext \notin RasterExtensions \cup RawExtensions
             THEN Invalid("Unsupported format '" \o ext
                            \o "'. Supported formats: " \o SupportedList)
        ELSE [is_valid |-> TRUE, error_msg |-> ""]

\* is_raw_format, utils.py:83-85
is_raw_format(path) == Lower(Suffix(path)) \in RawExtensions

\* the code chosen for a message of validate_filepath, tools.py:38-41
ValidationCode(error_msg) ==
    IF Contains(error_msg, "not found") THEN "FILE_NOT_FOUND"
    ELSE IF Contains(error_msg, "Permission") THEN "PERMISSION_DENIED"
    ELSE IF Contains(error_msg, "Unsupported") THEN "UNSUPPORTED_FORMAT"
    ELSE "INVALID_PARAMETER"

\* the code get_image_metadata gives an exception, tools.py:58
MetadataExceptionCode(error_msg) ==
    LET lowered == Lower(error_msg)
    IN  IF Contains(lowered, "corrupted") \/ Contains(lowered, "failed to read")
        THEN "CORRUPTED_FILE" ELSE "INVALID_PARAMETER"

\* the code get_image_histogram and analyze_image_file give an exception,
\* tools.py:112-115 and 246-249
ExceptionCode(error_msg) ==
    LET lowered == Lower(error_msg)
    IN  IF Contains(error_msg, "RAW") THEN "RAW_PROCESSING_FAILED"
        ELSE IF Contains(lowered, "corrupted") THEN "CORRUPTED_FILE"
        ELSE IF Contains(lowered, "memory") THEN "OUT_OF_MEMORY"
        ELSE "INVALID_PARAMETER"

\* a variant of the error dictionary that keeps the metadata gathered
\* before the failure
ToolErrorWithMetadata(code, message, details) ==
    [ success |-> FALSE, keys |-> {"success", "error", "metadata"}, nulls |-> {},
      error |-> <<[code |-> code, message |-> message, details |-> details]>> ]

\* A returned dictionary: `keys` are its keys, `nulls` those whose value is
\* None, `error` the value under "error".
ToolError(code, message, details) ==
    [ success |-> FALSE, keys |-> {"success", "error"}, nulls |-> {},
      error |-> Some([code |-> code, message |-> message, details |-> details]) ]
ToolSuccess(keys, nulls) ==
    [ success |-> TRUE, keys |-> {"success", "filepath"} \cup keys,
      nulls |-> nulls, error |-> Unset ]

NoDetails == <<>>
ExceptionType(name) == <<"exception_type", name>>
ProvidedValue(v) == <<"provided_value", v>>

\* what a tool did: the dictionary it returned, the steps it ran and the
\* buffer it decoded
Outcome(result, steps, decoded) ==
    [result |-> result, steps |-> steps, decoded |-> decoded]

\* extract_metadata, metadata.py:13-50: _extract_exif absorbs its failures,
\* an exception of _get_image_info propagates
extract_metadata(f) == _get_image_info(f)

\* np.array(img) of a decodable file: its geometry (contents are not read
\* by the steps modelled here)
DecodedBuffer(f) ==
    [ h |-> f.size[2], w |-> f.size[1],
      runs |-> << [rgb |-> Px(128, 128, 128), n |-> f.size[1] * f.size[2]] >> ]

\* _load_image, tools.py:261-307
_load_image(f, process_raw) ==
    LET Loaded == [outcome |-> "return", image |-> DecodedBuffer(f), message |-> ""]
        Failed(msg) == [outcome |-> "raise", image |-> None, message |-> msg]
    IN  IF is_raw_format(f.path)
        THEN IF ~process_raw
             THEN Failed("RAW file processing disabled (process_raw=False)")
             ELSE IF f.content = "raw" THEN Loaded
             ELSE Failed("RAW processing failed: " \o LibRawMessage)
        ELSE IF f.content = "raster" THEN Loaded
        ELSE IF f.content = "truncated"
             THEN Failed("Failed to load image: " \o TruncatedMessage)
        ELSE Failed("Failed to load image: " \o CannotIdentify(f.path))

\* analyze_frequency_domain, frequency.py:25-32: the downsampling
FftMaxDimension == 2048

\* Pairs <<side, longer>> for which the double-precision product
\* side * (2048 / longer) lands one ulp below its exact, integral value.
ScaleShort == { <<2215, 2215>>, <<561, 2244>>, <<2244, 2244>> }

\* int(side * scale) with scale = max_dimension / longer: the product in
\* double precision, truncated.  It is the floor of the exact quotient
\* except where the quotient is an integer and the product falls just
\* below it (ScaleShort).  Defined for the sides of FrequencySides.
ScaledSide(side, longer) ==
    IF <<side, longer>> \in ScaleShort
    THEN ((side * FftMaxDimension) \div longer) - 1
    ELSE (side * FftMaxDimension) \div longer

\* lines 27-32: the shape of gray after the downsampling step; cv2.resize
\* raises for a target size with a side of 0
DownsampledShape(h, w) ==
    LET longer == Max2(h, w)
        new_h == ScaledSide(h, longer)
        new_w == ScaledSide(w, longer)
    IN  IF longer > FftMaxDimension
        THEN IF new_h <= 0 \/ new_w <= 0
             THEN [outcome |-> "raise", resized |-> TRUE, h |-> new_h, w |-> new_w]
             ELSE [outcome |-> "return", resized |-> TRUE, h |-> new_h, w |-> new_w]
        ELSE [outcome |-> "return", resized |-> FALSE, h |-> h, w |-> w]

\* the message of the cv2.error that cv2.resize raises for an empty target
\* size (version and source path as in the opencv-python 4.10 wheels)
ResizeMessage ==
    "OpenCV(4.10.0) /io/opencv/modules/imgproc/src/resize.cpp:4152: error: (-215:Assertion failed) inv_scale_x > 0 in function 'resize'"

\* analyze_frequency_domain raises on the buffer (frequency.py:32)
FrequencyRaises(img) == DownsampledShape(img.h, img.w).outcome = "raise"

\* generate_preview, preview.py:10-83: Unset when an exception is caught
\* (resize refuses an empty target size), else the preview's format and
\* dimensions.  int(height * (max_dimension / width)) is taken as the floor
\* of the exact quotient.
generate_preview(img, max_dimension, format, quality) ==
    LET width == img.w
        height == img.h
        resized == Max2(width, height) > max_dimension
        new_width == IF ~resized THEN width
                     ELSE IF width > height THEN max_dimension
                     ELSE (width * max_dimension) \div height
        new_height == IF ~resized THEN height
                      ELSE IF width > height
                           THEN (height * max_dimension) \div width
                      ELSE max_dimension
    IN  IF resized /\ (new_width <= 0 \/ new_height <= 0) THEN Unset
        ELSE Some([ format |-> IF Upper(format) \in {"PNG", "WEBP"}
                               THEN format ELSE "JPEG",
                    dimensions |-> [width |-> new_width, height |-> new_height] ])

\* get_image_metadata, tools.py:21-67
get_image_metadata(f) ==
    LET v == validate_filepath(f)
        metadata == extract_metadata(f)
    IN  IF ~v.is_valid
        THEN Outcome(ToolError(ValidationCode(v.error_msg), v.error_msg, NoDetails),
                     <<"validate_filepath">>, None)
        ELSE IF metadata.outcome = "raise"
        THEN Outcome(ToolError(MetadataExceptionCode(metadata.message),
                               metadata.message, ExceptionType("ValueError")),
                     <<"validate_filepath", "extract_metadata">>, None)
        ELSE Outcome(ToolSuccess({"metadata"}, {}),
                     <<"validate_filepath", "extract_metadata">>, None)

\* get_image_histogram, tools.py:70-124
get_image_histogram(f, process_raw) ==
    LET v == validate_filepath(f)
        loaded == _load_image(f, process_raw)
    IN  IF ~v.is_valid
        THEN Outcome(ToolError(ValidationCode(v.error_msg), v.error_msg, NoDetails),
                     <<"validate_filepath">>, None)
        ELSE IF loaded.outcome = "raise"
        THEN Outcome(ToolError(ExceptionCode(loaded.message), loaded.message,
                               ExceptionType("ValueError")),
                     <<"validate_filepath", "_load_image">>, None)
        ELSE Outcome(ToolSuccess({"histogram", "statistics"}, {}),
                     <<"validate_filepath", "_load_image", "extract_histogram_only">>,
                     loaded.image)

\* tools.py:167-196, a variant that looks at the preview parameters only when
\* a preview is asked for
ValidateParametersWhenPreview(a) ==
    IF ~a.include_preview THEN Unset
    ELSE IF a.preview_max_dimension < 1 \/ a.preview_max_dimension > 10000
    THEN Some(ToolError("INVALID_PARAMETER",
                        "preview_max_dimension must be between 1 and 10000",
                        ProvidedValue(a.preview_max_dimension)))
    ELSE IF a.preview_quality < 1 \/ a.preview_quality > 100
    THEN Some(ToolError("INVALID_PARAMETER",
                        "preview_quality must be between 1 and 100",
                        ProvidedValue(a.preview_quality)))
    ELSE IF Upper(a.preview_format) \notin {"JPEG", "PNG", "WEBP"}
    THEN Some(ToolError("INVALID_PARAMETER",
                        "preview_format must be 'JPEG', 'PNG', or 'WEBP'",
                        ProvidedValue(a.preview_format)))
    ELSE Unset

\* tools.py:167-196: the error returned for the parameters, Unset if none
ValidateParameters(a) ==
    IF a.preview_max_dimension < 1 \/ a.preview_max_dimension > 10000
    THEN Some(ToolError("INVALID_PARAMETER",
                        "preview_max_dimension must be between 1 and 10000",
                        ProvidedValue(a.preview_max_dimension)))
    ELSE IF a.preview_quality < 1 \/ a.preview_quality > 100
    THEN Some(ToolError("INVALID_PARAMETER",
                        "preview_quality must be between 1 and 100",
                        ProvidedValue(a.preview_quality)))
    ELSE IF Upper(a.preview_format) \notin {"JPEG", "PNG", "WEBP"}
    THEN Some(ToolError("INVALID_PARAMETER",
                        "preview_format must be 'JPEG', 'PNG', or 'WEBP'",
                        ProvidedValue(a.preview_format)))
    ELSE Unset

\* tools.py:204-230: the steps run on a decoded buffer
AnalysisSteps(a) ==
    << "calculate_histogram", "analyze_tonal_properties",
       "analyze_color_properties", "analyze_spatial_properties" >>
      \o (IF a.include_frequency THEN <<"analyze_frequency_domain">> ELSE <<>>)
      \o (IF a.include_preview THEN <<"generate_preview">> ELSE <<>>)

AnalysisSections ==
    { "metadata", "histogram", "tonal_analysis", "color_analysis",
      "spatial_properties", "frequency_analysis", "preview" }

\* analyze_image_file, tools.py:127-258
analyze_image_file(f, a) ==
    LET v == validate_filepath(f)
        rejected == ValidateParameters(a)
        metadata == extract_metadata(f)
        loaded == _load_image(f, a.process_raw)
        preview == IF a.include_preview
                   THEN generate_preview(loaded.image, a.preview_max_dimension,
                                         a.preview_format, a.preview_quality)
                   ELSE Unset
    IN  IF ~v.is_valid
        THEN Outcome(ToolError(ValidationCode(v.error_msg), v.error_msg, NoDetails),
                     <<"validate_filepath">>, None)
        ELSE IF rejected # Unset
        THEN Outcome(rejected[1], <<"validate_filepath">>, None)
        ELSE IF metadata.outcome = "raise"
        THEN Outcome(ToolError(ExceptionCode(metadata.message), metadata.message,
                               ExceptionType("ValueError")),
                     <<"validate_filepath", "extract_metadata">>, None)
        ELSE IF loaded.outcome = "raise"
        THEN Outcome(ToolError(ExceptionCode(loaded.message), loaded.message,
                               ExceptionType("ValueError")),
                     <<"validate_filepath", "extract_metadata", "_load_image">>,
                     None)
        ELSE IF a.include_frequency /\ FrequencyRaises(loaded.image)
        THEN Outcome(ToolError(ExceptionCode(ResizeMessage), ResizeMessage,
                               ExceptionType("error")),
                     <<"validate_filepath", "extract_metadata", "_load_image",
                       "calculate_histogram", "analyze_tonal_properties",
                       "analyze_color_properties", "analyze_spatial_properties",
                       "analyze_frequency_domain">>,
                     loaded.image)
        ELSE Outcome(ToolSuccess(AnalysisSections,
                        (IF a.include_frequency THEN {} ELSE {"frequency_analysis"})
                          \cup (IF preview = Unset THEN {"preview"} ELSE {})),
                     <<"validate_filepath", "extract_metadata", "_load_image">>
                        \o AnalysisSteps(a),
                     loaded.image)

(***************************************************************************)
(* The tools' inputs                                                       *)
(***************************************************************************)
ToolPaths ==
    { "/data/photo.jpg", "/data/RAW/scan.PNG", "/not found/photo.tiff",
      "/data/shot.CR2", "/memory/shot.dng", "/Permission/notes.txt",
      "/data/clip.gif", "/data/scan.not found" }

\* what a regular file at the path can hold, by its extension
Contents(path) ==
    IF Lower(Suffix(path)) \in RawExtensions THEN {"raw", "garbage"}
    ELSE IF Lower(Suffix(path)) \in RasterExtensions
         THEN {"raster", "truncated", "garbage"}
    ELSE {"garbage"}

DiskFile(path, disk, content) ==
    [ path |-> path, disk |-> disk, content |-> content, size |-> <<640, 480>>,
      mode |-> IF content = "truncated" THEN "L" ELSE "RGB",
      icc_profile |-> FALSE, exif |-> NoExif ]

\* a decodable one-row panorama, 3000 pixels wide
WideFile(path) == [DiskFile(path, "file", "raster") EXCEPT !.size = <<3000, 1>>]

ToolFiles ==
    { DiskFile("", "missing", "garbage"), WideFile("/data/photo.jpg") }
      \cup { DiskFile(p, d, "garbage") :
               p \in ToolPaths, d \in {"missing", "directory", "unreadable"} }
      \cup UNION { { DiskFile(p, "file", c) : c \in Contents(p) } : p \in ToolPaths }

AnalyzeArgs ==
    [ include_frequency : BOOLEAN, include_preview : BOOLEAN,
      preview_max_dimension : {0, 1, 10000, 10001},
      preview_format : {"JPEG", "png", "WebP", "GIF"},
      preview_quality : {0, 1, 100, 101},
      process_raw : BOOLEAN ]

InitTool ==
    /\ pc = "idle"
    /\ image = None
    /\ IdleHist /\ IdleColor /\ IdleCast /\ IdleExif /\ IdleInfo /\ IdleFn
    /\ tool_file \in ToolFiles
    /\ tool_call = None
    /\ tool_steps = <<>>
    /\ tool_result = None

Returned(call, outcome) ==
    /\ tool_call' = call
    /\ tool_result' = outcome.result
    /\ tool_steps' = outcome.steps
    /\ image' = outcome.decoded
    /\ pc' = "returned"
    /\ UNCHANGED <<histVars, colorVars, castVars, exifVars, infoVars, tool_file, fnVars>>

GetImageMetadata ==
    /\ pc = "idle"
    /\ Returned([tool |-> "get_image_metadata"], get_image_metadata(tool_file))

GetImageHistogram ==
    /\ pc = "idle"
    /\ \E process_raw \in BOOLEAN :
          Returned([tool |-> "get_image_histogram", process_raw |-> process_raw],
                   get_image_histogram(tool_file, process_raw))

AnalyzeImageFile ==
    /\ pc = "idle"
    /\ \E a \in AnalyzeArgs :
          Returned([tool |-> "analyze_image_file", args |-> a],
                   analyze_image_file(tool_file, a))

NextTool == GetImageMetadata \/ GetImageHistogram \/ AnalyzeImageFile

SpecTool == InitTool /\ [][NextTool]_vars

(***************************************************************************)
(* C7, C10                                                                 *)
(***************************************************************************)
\* the file passes validate_filepath and neither PIL nor rawpy can open it
Undecodable(f) == validate_filepath(f).is_valid /\ f.content = "garbage"

\* the file passes validate_filepath and decodes
Decodable(f) == validate_filepath(f).is_valid /\ f.content \in {"raster", "raw"}

ErrorCode(result) == result.error[1].code

\* C7: for a file that passes path validation and cannot be opened, every
\* tool (analyze_image_file with valid parameters) returns success=False
\* with a code other than INVALID_PARAMETER, and get_image_metadata and
\* analyze_image_file return the same code for the same file.
C7_UndecodableFileKind ==
    ( /\ pc = "returned"
      /\ Undecodable(tool_file)
      /\ tool_call.tool = "analyze_image_file" =>
            ValidateParameters(tool_call.args) = Unset )
    => /\ ~tool_result.success
       /\ ErrorCode(tool_result) # "INVALID_PARAMETER"
       /\ tool_call.tool = "analyze_image_file" =>
            ErrorCode(tool_result) = ErrorCode(get_image_metadata(tool_file).result)

\* an argument of analyze_image_file is out of range
BadParameters(a) ==
    \/ a.preview_quality \notin 1..100
    \/ a.preview_max_dimension \notin 1..10000
    \/ \A fmt \in {"JPEG", "PNG", "WEBP"} : Upper(a.preview_format) # fmt

\* C10: analyze_image_file on a valid, decodable file with an out-of-range
\* preview_quality, preview_max_dimension or preview_format returns
\* success=False with code INVALID_PARAMETER, whether or not a preview is
\* asked for, having run no step after the path validation.
C10_ParametersRejectedFirst ==
    ( /\ pc = "returned"
      /\ tool_call.tool = "analyze_image_file"
      /\ Decodable(tool_file)
      /\ BadParameters(tool_call.args) )
    => /\ ~tool_result.success
       /\ ErrorCode(tool_result) = "INVALID_PARAMETER"
       /\ tool_steps = <<"validate_filepath">>
       /\ image = None

\* a decodable file, a preview not asked for, an out-of-range quality as the
\* only bad argument, and the call has returned its rejection
C10_Witness ==
    /\ pc = "returned"
    /\ tool_call.tool = "analyze_image_file"
    /\ Decodable(tool_file)
    /\ ~tool_call.args.include_preview
    /\ tool_call.args.preview_quality = 101
    /\ tool_call.args.preview_max_dimension = 10000
    /\ tool_call.args.preview_format = "WebP"
    /\ ~tool_result.success
    /\ ErrorCode(tool_result) = "INVALID_PARAMETER"

(***************************************************************************)
(* C11                                                                     *)
(***************************************************************************)
SupportedExtension(path) ==
    Lower(Suffix(path)) \in RasterExtensions \cup RawExtensions

\* C11: whichever tool is called, a non-empty filepath at which nothing
\* exists gives success=False with code FILE_NOT_FOUND, whatever its
\* extension, and an existing readable file with an unsupported extension
\* gives success=False with code UNSUPPORTED_FORMAT; in both cases no step
\* runs after the path validation.
C11_MissingAndUnsupported ==
    (pc = "returned" /\ tool_file.path # "") =>
        /\ tool_file.disk = "missing" =>
              /\ ~tool_result.success
              /\ ErrorCode(tool_result) = "FILE_NOT_FOUND"
              /\ tool_steps = <<"validate_filepath">>
        /\ (tool_file.disk = "file" /\ ~SupportedExtension(tool_file.path)) =>
              /\ ~tool_result.success
              /\ ErrorCode(tool_result) = "UNSUPPORTED_FORMAT"
              /\ tool_steps = <<"validate_filepath">>

(***************************************************************************)
(* C12                                                                     *)
(***************************************************************************)
\* C12: in a successful analyze_image_file result, frequency_analysis is
\* non-null exactly when include_frequency is set and preview is non-null
\* exactly when include_preview is set.
C12_OptionalSectionsFollowFlags ==
    (pc = "returned" /\ tool_call.tool = "analyze_image_file"
       /\ tool_result.success) =>
        /\ ("frequency_analysis" \notin tool_result.nulls)
              <=> tool_call.args.include_frequency
        /\ ("preview" \notin tool_result.nulls)
              <=> tool_call.args.include_preview

(***************************************************************************)
(* Helper functions called on their own: fn_args are the arguments,        *)
(* fn_result what the call returned or raised.                             *)
(***************************************************************************)
OnlyFn ==
    /\ image = None
    /\ IdleHist /\ IdleColor /\ IdleCast /\ IdleExif /\ IdleInfo /\ IdleTool

FnFrame ==
    UNCHANGED <<image, histVars, colorVars, castVars, exifVars, infoVars,
                toolVars, fn_args>>

(***************************************************************************)
(* _convert_gps_to_decimal on its own.  The denominators of the inputs     *)
(* divide 10, so that the millionths of the exact sum are at least 1/18    *)
(* away from a rounding tie and the double-precision sum of the code       *)
(* rounds to the same sixth decimal.                                       *)
(***************************************************************************)
DegreeParts == { <<IntLit(41)>>, <<IntLit(0)>>, <<IntLit(179)>>, <<IntLit(83), IntLit(2)>> }
MinuteParts == { <<IntLit(53)>>, <<IntLit(0)>>, <<IntLit(59)>>, <<IntLit(7)>> }
SecondParts ==
    { <<IntLit(23)>>, <<IntLit(0)>>, <<DecLit(598, 10)>>, <<IntLit(47), IntLit(2)>>,
      <<IntLit(1), IntLit(5)>> }
BadParts == { <<Txt>>, <<IntLit(23), IntLit(0)>>, <<IntLit(1), IntLit(2), IntLit(3)>> }

GpsCoords ==
    { <<d, m, sec>> : d \in DegreeParts, m \in MinuteParts, sec \in SecondParts }
      \cup { <<d, m, sec>> : d \in DegreeParts, m \in BadParts, sec \in BadParts }
      \cup { <<>>, << <<IntLit(41)>> >>, << <<IntLit(41)>>, <<IntLit(53)>> >>,
             << <<IntLit(41)>>, <<IntLit(53)>>, <<IntLit(23)>>, <<IntLit(0)>> >> }

GpsRefs == { "N", "S", "E", "W" }

InitGps ==
    /\ pc = "args"
    /\ OnlyFn
    /\ fn_args \in { [gps_coord |-> c, ref |-> r] : c \in GpsCoords, r \in GpsRefs }
    /\ fn_result = None

ConvertGpsToDecimal ==
    /\ pc = "args"
    /\ fn_result' = _convert_gps_to_decimal(fn_args.gps_coord, fn_args.ref)
    /\ pc' = "done"
    /\ FnFrame

NextGps == ConvertGpsToDecimal

SpecGps == InitGps /\ [][NextGps]_vars

(***************************************************************************)
(* C13                                                                     *)
(***************************************************************************)
\* every component is an integer, a decimal or a fraction a/b with b # 0
WellFormedCoord(c) == \A i \in 1..Len(c) : _parse_fraction(c[i]).ok

\* m millionths is the sixth-decimal rounding of d + mi/60 + sec/3600 for
\* the parsed components: with the sum written N / (3600 D), m is within
\* half a millionth of it
IsRoundedSum(m, d, mi, sec) ==
    LET D == d.d * mi.d * sec.d
        N == d.n * 3600 * mi.d * sec.d + mi.n * 60 * d.d * sec.d
               + sec.n * d.d * mi.d
        whole == N \div (3600 * D)
        rest == N % (3600 * D)
    IN  /\ m >= whole * 1000000
        /\ 2 * Abs((m - whole * 1000000) * 36 * D - rest * 10000) <= 36 * D

\* C13: for a 3-element sequence of well-formed components the result is
\* degrees + minutes/60 + seconds/3600 rounded to 6 decimals for N and E and
\* its negation for S and W; (41, 53, 23) gives 41.889722; a sequence
\* without exactly 3 elements raises ValueError and yields no value.
C13_GpsDecimal ==
    pc = "done" =>
        LET c == fn_args.gps_coord
        IN  /\ Len(c) # 3 => (~fn_result.ok /\ fn_result.exc = "ValueError")
            /\ (Len(c) = 3 /\ WellFormedCoord(c)) =>
                  /\ fn_result.ok
                  /\ fn_result.d = 1
                  /\ IsRoundedSum(IF fn_args.ref \in {"S", "W"}
                                  THEN -fn_result.n ELSE fn_result.n,
                                  _parse_fraction(c[1]), _parse_fraction(c[2]),
                                  _parse_fraction(c[3]))
            /\ c = << <<IntLit(41)>>, <<IntLit(53)>>, <<IntLit(23)>> >> =>
                  fn_result.n = IF fn_args.ref \in {"S", "W"}
                                THEN -41889722 ELSE 41889722

\* the west reference applied to a fractional coordinate
C13_Witness ==
    /\ pc = "done"
    /\ fn_args.ref = "W"
    /\ fn_args.gps_coord = << <<IntLit(83), IntLit(2)>>, <<IntLit(7)>>, <<DecLit(598, 10)>> >>
    /\ fn_result.ok
    /\ fn_result.n = -41633278

(***************************************************************************)
(* _parse_fraction on its own                                              *)
(***************************************************************************)
TokenParts ==
    { IntLit(0), IntLit(1), IntLit(2), IntLit(3), IntLit(23), DecLit(5, 10),
      DecLit(0, 10), Txt }

\* tokens with no, one and two "/" characters
FractionTokens ==
    { <<a>> : a \in TokenParts }
      \cup { <<a, b>> : a \in TokenParts, b \in TokenParts }
      \cup { <<IntLit(1), IntLit(2), b>> : b \in TokenParts }

InitFraction ==
    /\ pc = "args"
    /\ OnlyFn
    /\ fn_args \in { [value |-> t] : t \in FractionTokens }
    /\ fn_result = None

ParseFraction ==
    /\ pc = "args"
    /\ fn_result' = _parse_fraction(fn_args.value)
    /\ pc' = "done"
    /\ FnFrame

NextFraction == ParseFraction

SpecFraction == InitFraction /\ [][NextFraction]_vars

(***************************************************************************)
(* C14                                                                     *)
(***************************************************************************)
Numeric(part) == part.k # "txt"

\* C14: "a/b" with numeric a and non-zero numeric b gives a/b, a numeric
\* literal without "/" gives its value, and a token "a/b" with b = 0 fails
\* with the same error kind as a token with a non-numeric part, giving no
\* value.
C14_FractionValueOrOneErrorKind ==
    pc = "done" =>
        LET t == fn_args.value
        IN  /\ (Len(t) = 1 /\ Numeric(t[1])) =>
                  (fn_result.ok /\ fn_result.n * t[1].d = t[1].n * fn_result.d)
            /\ (Len(t) = 2 /\ Numeric(t[1]) /\ Numeric(t[2]) /\ t[2].n # 0) =>
                  /\ fn_result.ok
                  /\ fn_result.n * t[1].d * t[2].n = t[1].n * t[2].d * fn_result.d
            /\ (Len(t) = 2 /\ (~Numeric(t[1]) \/ ~Numeric(t[2]) \/ t[2].n = 0)) =>
                  /\ ~fn_result.ok
                  /\ fn_result.exc = _parse_fraction(<<Txt>>).exc

(***************************************************************************)
(* C15                                                                     *)
(***************************************************************************)
\* C15: with the grand mean floored at 1, a largest absolute relative
\* deviation below 0.05 gives no cast; otherwise a cast is detected, the
\* direction names a channel whose absolute deviation is the largest, with
\* the sign of that deviation (red/cyan, green/magenta, blue/yellow), and
\* the severity is the largest deviation clamped to [0, 1].
C15_CastDirectionAndSeverity ==
    pc = "cast" =>
        LET T == Max2(avg_rgb[1] + avg_rgb[2] + avg_rgb[3], 3 * MeanScale)
            rd == 3 * avg_rgb[1] - T
            gd == 3 * avg_rgb[2] - T
            bd == 3 * avg_rgb[3] - T
            largest == Max2(Abs(rd), Max2(Abs(gd), Abs(bd)))
            Names(dev, plus, minus) ==
                /\ Abs(dev) = largest
                /\ color_cast.direction = IF dev > 0 THEN plus ELSE minus
        IN  IF 20 * largest < T
            THEN color_cast = [detected |-> FALSE, direction |-> "none", severity |-> 0]
            ELSE /\ color_cast.detected
                 /\ \/ Names(rd, "red", "cyan")
                    \/ Names(gd, "green", "magenta")
                    \/ Names(bd, "blue", "yellow")
                 /\ color_cast.severity =
                       IF largest >= T THEN 1000 ELSE RoundDiv(1000 * largest, T)

\* blue is the largest deviation while red exceeds green
C15_Witness ==
    /\ pc = "cast"
    /\ avg_rgb = <<110 * MeanScale, 100 * MeanScale, 255 * MeanScale>>
    /\ color_cast.detected
    /\ color_cast.direction = "blue"
    /\ color_cast.severity > 0

(***************************************************************************)
(* estimate_color_temperature (utils.py), on integer channel means.  The   *)
(* ratio r / b is kept as the pair; the Kelvin expressions are brought to  *)
(* one quotient and int() is taken of the exact value.                     *)
(***************************************************************************)
\* int(n / d) for d > 0: truncation towards zero
IntTrunc(n, d) == IF n >= 0 THEN n \div d ELSE -((-n) \div d)

Clamp(lo, x, hi) == Max2(lo, Min2(x, hi))

\* utils.py:168-214, a variant without the max / min clamps
EstimateColorTemperatureUnclamped(avg_r, avg_g, avg_b) ==
    LET b == IF avg_b < 1 THEN 1 ELSE avg_b
    IN  IF 10 * avg_r > 13 * b
        THEN [category |-> "warm",
              kelvin |-> IntTrunc(17500 * b + (2 * b - avg_r) * 15000, 7 * b)]
        ELSE IF 100 * avg_r < 85 * b
        THEN [category |-> "cool",
              kelvin |-> IntTrunc(7000 * b + (85 * b - 100 * avg_r) * 120, b)]
        ELSE [category |-> "neutral",
              kelvin |-> IntTrunc(15000 * b + (b - avg_r) * 10000, 3 * b)]

\* estimate_color_temperature, utils.py:168-214
\*   warm:    2500 + (2.0 - r/b) / 0.7 * 1500  = (17500 b + 15000 (2b - r)) / 7b
\*   cool:    7000 + (0.85 - r/b) / 0.25 * 3000 = (7000 b + 120 (85b - 100r)) / b
\*   neutral: 5000 + (1.0 - r/b) / 0.45 * 1500 = (15000 b + 10000 (b - r)) / 3b
estimate_color_temperature(avg_r, avg_g, avg_b) ==
    LET b == IF avg_b < 1 THEN 1 ELSE avg_b
    IN  IF 10 * avg_r > 13 * b
        THEN [category |-> "warm",
              kelvin |-> Clamp(2000,
                  IntTrunc(17500 * b + (2 * b - avg_r) * 15000, 7 * b), 4000)]
        ELSE IF 100 * avg_r < 85 * b
        THEN [category |-> "cool",
              kelvin |-> Clamp(7000,
                  IntTrunc(7000 * b + (85 * b - 100 * avg_r) * 120, b), 10000)]
        ELSE [category |-> "neutral",
              kelvin |-> Clamp(5000,
                  IntTrunc(15000 * b + (b - avg_r) * 10000, 3 * b), 6500)]

InitTemperature ==
    /\ pc = "args"
    /\ OnlyFn
    /\ fn_args \in { [avg_r |-> r, avg_g |-> 128, avg_b |-> b] :
                       r \in 0..255, b \in 0..255 }
    /\ fn_result = None

EstimateColorTemperature ==
    /\ pc = "args"
    /\ fn_result' = estimate_color_temperature(fn_args.avg_r, fn_args.avg_g,
                                               fn_args.avg_b)
    /\ pc' = "done"
    /\ FnFrame

NextTemperature == EstimateColorTemperature

SpecTemperature == InitTemperature /\ [][NextTemperature]_vars

(***************************************************************************)
(* C16                                                                     *)
(***************************************************************************)
\* C16: with the blue mean floored at 1, the category is "warm" iff
\* R/B > 1.3, "cool" iff R/B < 0.85 and "neutral" otherwise, and the Kelvin
\* lies in 2000..4000, 7000..10000 and 5000..6500 respectively.
C16_TemperatureBands ==
    pc = "done" =>
        LET r == fn_args.avg_r
            b == Max2(fn_args.avg_b, 1)
        IN  /\ fn_result.category = "warm" <=> 10 * r > 13 * b
            /\ fn_result.category = "cool" <=> 100 * r < 85 * b
            /\ fn_result.category = "neutral" <=>
                  (10 * r <= 13 * b /\ 100 * r >= 85 * b)
            /\ fn_result.category = "warm" => fn_result.kelvin \in 2000..4000
            /\ fn_result.category = "cool" => fn_result.kelvin \in 7000..10000
            /\ fn_result.category = "neutral" => fn_result.kelvin \in 5000..6500

\* a ratio far above 2.0, where the interpolation falls below the range and
\* the clamp applies
C16_Witness ==
    /\ pc = "done"
    /\ fn_args.avg_r = 255 /\ fn_args.avg_b = 0
    /\ fn_result = [category |-> "warm", kelvin |-> 2000]

(***************************************************************************)
(* Sharpness rating and blur decision (utils.py, analysis/spatial.py).     *)
(* A sharpness score is counted in halves: the integer k stands for the    *)
(* score k / 2, so that 50, 150, 500 and 1000 and their neighbours on both *)
(* sides are all scores of the model.                                      *)
(***************************************************************************)
Halves(x) == 2 * x

\* utils.py:124-143, a variant whose lowest boundary is exclusive
ClassifySharpnessAbove50(score) ==
    IF score >= Halves(1000) THEN "very_sharp"
    ELSE IF score >= Halves(500) THEN "sharp"
    ELSE IF score >= Halves(150) THEN "moderate"
    ELSE IF score > Halves(50) THEN "soft"
    ELSE "very_soft"

\* utils.py:124-143, a variant whose "moderate" band starts at 100
ClassifySharpnessModerateFrom100(score) ==
    IF score >= Halves(1000) THEN "very_sharp"
    ELSE IF score >= Halves(500) THEN "sharp"
    ELSE IF score >= Halves(100) THEN "moderate"
    ELSE IF score >= Halves(50) THEN "soft"
    ELSE "very_soft"

\* classify_sharpness, utils.py:124-143
classify_sharpness(score) ==
    IF score >= Halves(1000) THEN "very_sharp"
    ELSE IF score >= Halves(500) THEN "sharp"
    ELSE IF score >= Halves(150) THEN "moderate"
    ELSE IF score >= Halves(50) THEN "soft"
    ELSE "very_soft"

\* spatial.py:153-181, a variant whose threshold test is <=
DetectBlurAtThreshold(gray, sharpness_score) ==
    LET blur_threshold == Halves(150)
        is_blurry == sharpness_score <= blur_threshold
        distance == IF is_blurry THEN blur_threshold - sharpness_score
                    ELSE sharpness_score - blur_threshold
    IN  [ is_blurry |-> is_blurry,
          confidence |-> IF distance >= blur_threshold THEN 100
                         ELSE RoundDiv(100 * distance, blur_threshold) ]

\* detect_blur, spatial.py:153-181; confidence in hundredths
detect_blur(gray, sharpness_score) ==
    LET blur_threshold == Halves(150)
        is_blurry == sharpness_score < blur_threshold
        distance == IF is_blurry THEN blur_threshold - sharpness_score
                    ELSE sharpness_score - blur_threshold
    IN  [ is_blurry |-> is_blurry,
          confidence |-> IF distance >= blur_threshold THEN 100
                         ELSE RoundDiv(100 * distance, blur_threshold) ]

SharpnessScores == 0..Halves(1200)

InitSharpness ==
    /\ pc = "score"
    /\ OnlyFn
    /\ fn_args \in { [sharpness_score |-> k] : k \in SharpnessScores }
    /\ fn_result = [sharpness_rating |-> Unset, blur_detection |-> Unset]

\* analyze_spatial_properties, spatial.py:27
ClassifySharpness ==
    /\ pc = "score"
    /\ fn_result' = [fn_result EXCEPT
          !.sharpness_rating = Some(classify_sharpness(fn_args.sharpness_score))]
    /\ pc' = "rated"
    /\ FnFrame

\* analyze_spatial_properties, spatial.py:40
DetectBlur ==
    /\ pc = "rated"
    /\ fn_result' = [fn_result EXCEPT
          !.blur_detection = Some(detect_blur(image, fn_args.sharpness_score))]
    /\ pc' = "done"
    /\ FnFrame

NextSharpness == ClassifySharpness \/ DetectBlur

SpecSharpness == InitSharpness /\ [][NextSharpness]_vars

(***************************************************************************)
(* C17, C18                                                                *)
(***************************************************************************)
Rank(rating) ==
    CASE rating = "very_soft" -> 0
      [] rating = "soft" -> 1
      [] rating = "moderate" -> 2
      [] rating = "sharp" -> 3
      [] rating = "very_sharp" -> 4

\* C17: the rating never goes down when the score goes up (stated for each
\* score and the next one), and the scores exactly 50, 150, 500 and 1000
\* are rated soft, moderate, sharp and very_sharp.
C17_SharpnessStepFunction ==
    pc \in {"rated", "done"} =>
        LET k == fn_args.sharpness_score
            rating == fn_result.sharpness_rating[1]
        IN  /\ Rank(rating) <= Rank(classify_sharpness(k + 1))
            /\ k = Halves(50) => rating = "soft"
            /\ k = Halves(150) => rating = "moderate"
            /\ k = Halves(500) => rating = "sharp"
            /\ k = Halves(1000) => rating = "very_sharp"
            /\ k = Halves(50) - 1 => rating = "very_soft"

\* the score exactly 50 has been rated
C17_Witness ==
    /\ pc = "rated"
    /\ fn_args.sharpness_score = Halves(50)
    /\ fn_result.sharpness_rating = Some("soft")

\* C18: is_blurry holds exactly for scores below 150; the confidence is
\* min(1, |150 - score| / 150) to two decimals, lies in [0, 1], is 0 at 150
\* and does not decrease when the score moves one step further from 150.
C18_BlurDecisionAndConfidence ==
    pc = "done" =>
        LET k == fn_args.sharpness_score
            blur == fn_result.blur_detection[1]
            further == IF k >= Halves(150) THEN k + 1 ELSE Max2(k - 1, 0)
        IN  /\ blur.is_blurry <=> k < Halves(150)
            /\ blur.confidence =
                  Min2(100, RoundDiv(100 * Abs(Halves(150) - k), Halves(150)))
            /\ blur.confidence \in 0..100
            /\ k = Halves(150) => blur.confidence = 0
            /\ blur.confidence <= detect_blur(image, further).confidence

\* the score exactly 150: not blurry, confidence 0
C18_Witness ==
    /\ pc = "done"
    /\ fn_args.sharpness_score = Halves(150)
    /\ fn_result.blur_detection = Some([is_blurry |-> FALSE, confidence |-> 0])

(***************************************************************************)
(* get_nearest_color_name (utils.py)                                       *)
(***************************************************************************)
Css(name, r, g, b) == [name |-> name, rgb |-> <<r, g, b>>]

\* CSS_COLORS, utils.py:19-44, in the order the loop visits the entries
CSS_COLORS ==
    << Css("black", 0, 0, 0), Css("white", 255, 255, 255), Css("red", 255, 0, 0),
       Css("lime", 0, 255, 0), Css("blue", 0, 0, 255), Css("yellow", 255, 255, 0),
       Css("cyan", 0, 255, 255), Css("magenta", 255, 0, 255),
       Css("silver", 192, 192, 192), Css("gray", 128, 128, 128),
       Css("maroon", 128, 0, 0), Css("olive", 128, 128, 0),
       Css("green", 0, 128, 0), Css("purple", 128, 0, 128),
       Css("teal", 0, 128, 128), Css("navy", 0, 0, 128),
       Css("orange", 255, 165, 0), Css("pink", 255, 192, 203),
       Css("brown", 165, 42, 42), Css("beige", 245, 245, 220),
       Css("tan", 210, 180, 140), Css("gold", 255, 215, 0),
       Css("indigo", 75, 0, 130), Css("violet", 238, 130, 238) >>

\* euclidean_distance, utils.py:93-99, squared: math.sqrt is increasing and
\* gives different doubles for different integers of this size, so the
\* comparisons of the loop are those of the squares
SquaredDistance(color1, color2) ==
    (color1[1] - color2[1]) * (color1[1] - color2[1])
      + (color1[2] - color2[2]) * (color1[2] - color2[2])
      + (color1[3] - color2[3]) * (color1[3] - color2[3])

\* the loop of utils.py:115-119 from entry i on; min_distance is Unset for
\* float('inf')
RECURSIVE NearestLoopLastWins(_, _, _, _)
NearestLoopLastWins(rgb, i, min_distance, nearest_name) ==
    IF i > Len(CSS_COLORS) THEN nearest_name
    ELSE LET distance == SquaredDistance(rgb, CSS_COLORS[i].rgb)
         IN  IF min_distance = Unset \/ distance <= min_distance[1]
             THEN NearestLoopLastWins(rgb, i + 1, Some(distance), CSS_COLORS[i].name)
             ELSE NearestLoopLastWins(rgb, i + 1, min_distance, nearest_name)

\* utils.py:102-121, a variant whose loop tests distance <= min_distance
GetNearestColorNameLastWins(rgb) == NearestLoopLastWins(rgb, 1, Unset, "gray")

RECURSIVE NearestLoop(_, _, _, _)
NearestLoop(rgb, i, min_distance, nearest_name) ==
    IF i > Len(CSS_COLORS) THEN nearest_name
    ELSE LET distance == SquaredDistance(rgb, CSS_COLORS[i].rgb)
         IN  IF min_distance = Unset \/ distance < min_distance[1]
             THEN NearestLoop(rgb, i + 1, Some(distance), CSS_COLORS[i].name)
             ELSE NearestLoop(rgb, i + 1, min_distance, nearest_name)

\* get_nearest_color_name, utils.py:102-121
get_nearest_color_name(rgb) == NearestLoop(rgb, 1, Unset, "gray")

\* the palette colours and a grid whose points include colours half-way
\* between two palette colours
NearestLevels == { 0, 64, 96, 128, 160, 192, 255 }

NearestInputs ==
    { CSS_COLORS[i].rgb : i \in 1..Len(CSS_COLORS) }
      \cup (NearestLevels \X NearestLevels \X NearestLevels)

InitNearest ==
    /\ pc = "args"
    /\ OnlyFn
    /\ fn_args \in { [rgb |-> c] : c \in NearestInputs }
    /\ fn_result = None

GetNearestColorName ==
    /\ pc = "args"
    /\ fn_result' = [name |-> get_nearest_color_name(fn_args.rgb)]
    /\ pc' = "done"
    /\ FnFrame

NextNearest == GetNearestColorName

SpecNearest == InitNearest /\ [][NextNearest]_vars

(***************************************************************************)
(* C19                                                                     *)
(***************************************************************************)
\* C19: the returned name is that of the first palette entry, in palette
\* order, among those at minimal Euclidean distance from the input; black
\* and white map to "black" and "white", and every palette colour maps to
\* its own name.
C19_NearestFirstWins ==
    pc = "done" =>
        LET rgb == fn_args.rgb
            Dist(i) == SquaredDistance(rgb, CSS_COLORS[i].rgb)
            Minimal(i) == \A j \in 1..Len(CSS_COLORS) : Dist(i) <= Dist(j)
        IN  /\ Len(CSS_COLORS) = 24
            /\ \E i \in 1..Len(CSS_COLORS) :
                  /\ CSS_COLORS[i].name = fn_result.name
                  /\ Minimal(i)
                  /\ \A j \in 1..(i - 1) : ~Minimal(j)
            /\ rgb = <<0, 0, 0>> => fn_result.name = "black"
            /\ rgb = <<255, 255, 255>> => fn_result.name = "white"
            /\ \A i \in 1..Len(CSS_COLORS) :
                  rgb = CSS_COLORS[i].rgb => fn_result.name = CSS_COLORS[i].name

\* (64, 0, 0) is equally far from black and maroon; black comes first
C19_Witness ==
    /\ pc = "done"
    /\ fn_args.rgb = <<64, 0, 0>>
    /\ SquaredDistance(fn_args.rgb, <<0, 0, 0>>)
          = SquaredDistance(fn_args.rgb, <<128, 0, 0>>)
    /\ fn_result.name = "black"

(***************************************************************************)
(* The clustered path of extract_dominant_colors from the fitted labels    *)
(***************************************************************************)
MaxClusters == 113
MaxClusterSize == 3
MaxVariedClusters == 3

\* lines 92-113 of color.py on the labels of a completed fit, given as the
\* number of sampled pixels labelled with each cluster index 1..n_colors
\* (0 for an index no pixel is labelled with): np.unique keeps the counts of
\* the indices that occur, total_sampled is len(labels), zip stops at the
\* shorter list, each percentage is round(count / total_sampled * 100, 2)
\* (here in hundredths of a percent) and the list is sorted descending.
ClusteredPercentages(sizes) ==
    LET counts == NonZero(sizes)
        total_sampled == SumSeq(sizes)
        k == Min2(Len(sizes), Len(counts))
    IN  SortDesc([i \in 1..k |->
                    [index |-> i,
                     percentage |-> Percentage(counts[i], total_sampled)]])

\* Label counts of a completed fit (KMeans raises unless there are at least
\* n_colors samples): every assignment for up to MaxVariedClusters clusters,
\* and equal-sized clusters for up to MaxClusters clusters.
UniformSizes ==
    { [i \in 1..n |-> s] : n \in 1..MaxClusters, s \in 1..MaxClusterSize }

VariedSizes ==
    UNION { { sz \in [1..n -> 0..MaxClusterSize] : SumSeq(sz) >= n }
            : n \in 1..MaxVariedClusters }

InitClustered ==
    /\ pc = "fitted"
    /\ OnlyFn
    /\ fn_args \in { [n_colors |-> Len(sz), sizes |-> sz]
                     : sz \in UniformSizes \cup VariedSizes }
    /\ fn_result = None

ClusterPercentages ==
    /\ pc = "fitted"
    /\ fn_result' = ClusteredPercentages(fn_args.sizes)
    /\ pc' = "clustered"
    /\ FnFrame

NextClustered == ClusterPercentages

SpecClustered == InitClustered /\ [][NextClustered]_vars

(***************************************************************************)
(* C20                                                                     *)
(***************************************************************************)
PercentageSum(entries) ==
    SumSeq([i \in 1..Len(entries) |-> entries[i].percentage])

\* C20: on the clustered path of extract_dominant_colors the returned
\* percentages (cluster size / sampled count x 100, rounded to 2 decimals)
\* sum to 100 within 0.5, for every sampled count >= n_colors and every
\* assignment of the sampled pixels to clusters.
C20_PercentagesSumTo100 ==
    pc = "clustered" =>
        Abs(PercentageSum(fn_result) - 10000) <= 50

(***************************************************************************)
(* The engine calls of analyze_image_file on one buffer (tools.py:204-230) *)
(***************************************************************************)
Engines ==
    << "calculate_histogram", "analyze_tonal_properties",
       "analyze_color_properties", "analyze_spatial_properties",
       "analyze_frequency_domain", "generate_preview" >>

\* The names of an engine that are assigned through (x[...] = value), as
\* opposed to rebound (x = value).  The only one is frequency.py:72-73.
InPlaceWrites(engine) ==
    IF engine = "analyze_frequency_domain" THEN {"magnitude_no_dc"} ELSE {}

\* The names of an engine that refer to the memory of its argument.  Fresh
\* arrays: image / image.max() * 255 (histogram.py:20), the luminance sums
\* (histogram.py:29, tonal.py:20), pixels[indices] (color.py:81),
\* cv2.cvtColor (color.py:42, spatial.py:23, frequency.py:23), every array
\* derived from gray, and magnitude_spectrum.copy() (frequency.py:70).
\* Views: image.reshape(-1, 3) (color.py:76), Image.fromarray
\* (preview.py:30, read only).
SharesArgument(engine) ==
    CASE engine = "analyze_color_properties" -> {"image", "pixels"}
      [] engine = "generate_preview" -> {"image", "pil_image"}
      [] OTHER -> {"image"}

\* the buffer with the values of a slice assignment `= 0`
Zeroed(img) ==
    [ h |-> img.h, w |-> img.w,
      runs |-> [i \in 1..Len(img.runs) |->
                  [rgb |-> Px(0, 0, 0), n |-> img.runs[i].n]] ]

\* a variant of the frequency engine in which the spectrum is computed in
\* place of its argument, so that the slice assignment lands in the buffer
BufferAfterSpectrumInPlace(engine, img) ==
    IF engine = "analyze_frequency_domain" THEN Zeroed(img) ELSE img

\* the caller's buffer after a call of the engine
BufferAfter(engine, img) ==
    IF InPlaceWrites(engine) \cap SharesArgument(engine) # {}
    THEN Zeroed(img) ELSE img

InitPipeline ==
    /\ pc = "loaded"
    /\ image \in SmallImages
    /\ IdleHist /\ IdleColor /\ IdleCast /\ IdleExif /\ IdleInfo /\ IdleTool
    /\ fn_args \in { [decoded |-> image, include_frequency |-> f,
                      include_preview |-> p] : f, p \in BOOLEAN }
    /\ fn_result = <<>>

\* one engine call: the buffer is what the engine leaves, the call is noted
EngineCall(engine, from, to) ==
    /\ pc = from
    /\ image' = BufferAfter(engine, image)
    /\ fn_result' = Append(fn_result, engine)
    /\ pc' = to
    /\ UNCHANGED <<histVars, colorVars, castVars, exifVars, infoVars, toolVars, fn_args>>

CallCalculateHistogram == EngineCall(Engines[1], "loaded", "histogram")
CallAnalyzeTonal == EngineCall(Engines[2], "histogram", "tonal")
CallAnalyzeColor == EngineCall(Engines[3], "tonal", "color")
CallAnalyzeSpatial == EngineCall(Engines[4], "color", "spatial")

CallAnalyzeFrequency ==
    /\ fn_args.include_frequency
    /\ EngineCall(Engines[5], "spatial", "frequency")

CallGeneratePreview ==
    /\ fn_args.include_preview
    /\ \/ fn_args.include_frequency
          /\ EngineCall(Engines[6], "frequency", "preview")
       \/ ~fn_args.include_frequency
          /\ EngineCall(Engines[6], "spatial", "preview")

NextPipeline ==
    \/ CallCalculateHistogram
    \/ CallAnalyzeTonal
    \/ CallAnalyzeColor
    \/ CallAnalyzeSpatial
    \/ CallAnalyzeFrequency
    \/ CallGeneratePreview

SpecPipeline == InitPipeline /\ [][NextPipeline]_vars

(***************************************************************************)
(* C21                                                                     *)
(***************************************************************************)
\* C21: no engine call modifies the caller's pixel buffer: after any
\* sequence of engine calls within analyze_image_file the buffer holds the
\* decoded pixels, so every later engine sees exactly those.
C21_BufferUnchanged ==
    pc \in {"loaded", "histogram", "tonal", "color", "spatial", "frequency",
            "preview"}
    => image = fn_args.decoded

\* all six engines have run on a buffer with a non-zero pixel
C21_Witness ==
    /\ pc = "preview"
    /\ fn_result = Engines
    /\ image = fn_args.decoded
    /\ \E i \in 1..Len(image.runs) : image.runs[i].rgb # Px(0, 0, 0)

(***************************************************************************)
(* The noise floor of the dynamic-range estimate (tonal.py:69-74)          *)
(***************************************************************************)
\* dark_pixels = luminance[luminance < 32]: their number, sum and sum of
\* squares
DarkRuns(img) ==
    [i \in 1..Len(img.runs) |->
        IF Luminance(img.runs[i].rgb) < 32
        THEN [n |-> img.runs[i].n, l |-> Luminance(img.runs[i].rgb)]
        ELSE [n |-> 0, l |-> 0]]

DarkCount(img) == SumSeq([i \in 1..Len(img.runs) |-> DarkRuns(img)[i].n])
DarkSum(img) ==
    SumSeq([i \in 1..Len(img.runs) |-> DarkRuns(img)[i].n * DarkRuns(img)[i].l])
DarkSumSq(img) ==
    SumSeq([i \in 1..Len(img.runs) |->
              DarkRuns(img)[i].n * DarkRuns(img)[i].l * DarkRuns(img)[i].l])

\* np.std(dark_pixels) squared, as the fraction <<numerator, denominator>>
\* of the population variance (n * sum of squares - sum^2) / n^2
DarkVariance(img) ==
    << DarkCount(img) * DarkSumSq(img) - DarkSum(img) * DarkSum(img),
       DarkCount(img) * DarkCount(img) >>

\* max(std, 1.0) squared: the variance if it exceeds 1, else 1
AtLeastOne(variance) ==
    IF variance[1] > variance[2] THEN variance ELSE <<1, 1>>

\* tonal.py:70-74: the square of noise_floor
NoiseFloorSquared(img) ==
    IF DarkCount(img) > 100 THEN AtLeastOne(DarkVariance(img)) ELSE <<1, 1>>

\* One-row gray buffers of two runs around the 100-pixel limit; the gray
\* levels 1 and 32 have truncated luminance 0 and 31, 40 is not dark.
NoiseLevels == {0, 1, 30, 31, 32, 40}
NoiseRunLengths == {1, 49, 50, 51, 99, 100, 101}

NoiseImages ==
    { [h |-> 1, w |-> n + m,
       runs |-> <<[rgb |-> Px(a, a, a), n |-> n], [rgb |-> Px(b, b, b), n |-> m]>>]
      : a \in NoiseLevels, b \in NoiseLevels,
        n \in NoiseRunLengths, m \in NoiseRunLengths }

InitNoiseFloor ==
    /\ pc = "luminance"
    /\ image \in NoiseImages
    /\ IdleHist /\ IdleColor /\ IdleCast /\ IdleExif /\ IdleInfo /\ IdleTool
    /\ fn_args = None
    /\ fn_result = None

EstimateNoiseFloor ==
    /\ pc = "luminance"
    /\ fn_result' = [noise_floor_squared |-> NoiseFloorSquared(image)]
    /\ pc' = "noise_floor"
    /\ UNCHANGED <<image, histVars, colorVars, castVars, exifVars, infoVars, toolVars, fn_args>>

NextNoiseFloor == EstimateNoiseFloor

SpecNoiseFloor == InitNoiseFloor /\ [][NextNoiseFloor]_vars

(***************************************************************************)
(* C23                                                                     *)
(***************************************************************************)
\* C23: in the dynamic-range estimate the noise floor is 1.0 when fewer than
\* 100 pixels have luminance < 32 or when their standard deviation is below
\* 1.0, and is that standard deviation in every other case, in particular
\* when exactly 100 such dark pixels exist.
C23_NoiseFloor ==
    pc = "noise_floor" =>
        fn_result.noise_floor_squared
          = IF DarkCount(image) < 100
               \/ DarkVariance(image)[1] <= DarkVariance(image)[2]
            THEN <<1, 1>>
            ELSE DarkVariance(image)

(***************************************************************************)
(* estimate_noise (analysis/spatial.py:73-108)                             *)
(***************************************************************************)
block_size == 32

\* A luma plane of h x w pixels is described by the standard deviation of
\* each of its complete block_size x block_size tiles, tile <<r, c>> covering
\* rows 32r..32r+31 and columns 32c..32c+31.
CompleteBlocks(h, w) ==
    (0..((h \div block_size) - 1)) \X (0..((w \div block_size) - 1))

\* range(0, n - block_size, block_size), as tile indices
BlockStarts(n) == { k \in 0..(n \div block_size) : k * block_size < n - block_size }

\* the tiles the two loops of lines 91-92 visit, in visiting order
RECURSIVE RowMajor(_)
RowMajor(S) ==
    IF S = {} THEN <<>>
    ELSE LET b == CHOOSE x \in S :
                    \A y \in S : x[1] < y[1] \/ (x[1] = y[1] /\ x[2] <= y[2])
         IN  <<b>> \o RowMajor(S \ {b})

ExaminedBlocks(plane) == BlockStarts(plane.h) \X BlockStarts(plane.w)

\* np.var(block) < 100
IsFlat(std) == std * std < 100

\* noise_estimates: the deviations of the flat tiles among `blocks`
RECURSIVE FlatDeviations(_, _)
FlatDeviations(plane, order) ==
    IF order = <<>> THEN <<>>
    ELSE (IF IsFlat(plane.std[Head(order)])
          THEN <<plane.std[Head(order)]>> ELSE <<>>)
            \o FlatDeviations(plane, Tail(order))

RECURSIVE InsertAsc(_, _)
InsertAsc(x, sorted) ==
    IF sorted = <<>> THEN <<x>>
    ELSE IF x <= Head(sorted) THEN <<x>> \o sorted
    ELSE <<Head(sorted)>> \o InsertAsc(x, Tail(sorted))

RECURSIVE SortAsc(_)
SortAsc(q) == IF q = <<>> THEN <<>> ELSE InsertAsc(Head(q), SortAsc(Tail(q)))

\* np.median of a non-empty list, doubled: the middle element, or the mean
\* of the two middle elements
TwiceMedian(q) ==
    LET sorted == SortAsc(q)
        n == Len(q)
    IN  IF n % 2 = 1 THEN 2 * sorted[(n + 1) \div 2]
        ELSE sorted[n \div 2] + sorted[(n \div 2) + 1]

\* what estimate_noise returns for the flat deviations it collected: their
\* median, or the median-filter estimate of lines 104-108
NoiseFrom(noise_estimates) ==
    IF noise_estimates # <<>>
    THEN [path |-> "flat_blocks", twice_noise |-> TwiceMedian(noise_estimates)]
    ELSE [path |-> "median_filter", twice_noise |-> Unset]

estimate_noise(plane) ==
    NoiseFrom(FlatDeviations(plane, RowMajor(ExaminedBlocks(plane))))

PlaneSides == {31, 32, 33, 64, 65}
BlockDeviations == {0, 3, 10}

NoisePlanes ==
    UNION { { [h |-> h, w |-> w, std |-> f]
              : f \in [CompleteBlocks(h, w) -> BlockDeviations] }
            : <<h, w>> \in PlaneSides \X PlaneSides }

InitNoise ==
    /\ pc = "gray"
    /\ OnlyFn
    /\ fn_args \in { [gray |-> g] : g \in NoisePlanes }
    /\ fn_result = None

EstimateNoise ==
    /\ pc = "gray"
    /\ fn_result' = [ examined |-> ExaminedBlocks(fn_args.gray),
                      noise_level |-> estimate_noise(fn_args.gray) ]
    /\ pc' = "noise"
    /\ FnFrame

NextNoise == EstimateNoise

SpecNoise == InitNoise /\ [][NextNoise]_vars

(***************************************************************************)
(* C24                                                                     *)
(***************************************************************************)
\* C24: estimate_noise examines every complete non-overlapping 32x32 block
\* of the luma plane, exactly floor(H/32) * floor(W/32) blocks for every H
\* and W (sides of exactly 32 or a multiple of 32 included); it returns the
\* median of the standard deviations of the blocks with variance < 100, and
\* takes the median-filter fallback only when none of those blocks is flat.
C24_AllCompleteBlocks ==
    pc = "noise" =>
        LET gray == fn_args.gray
            all == CompleteBlocks(gray.h, gray.w)
        IN  /\ fn_result.examined = all
            /\ Cardinality(fn_result.examined)
                 = (gray.h \div 32) * (gray.w \div 32)
            /\ fn_result.noise_level
                 = NoiseFrom(FlatDeviations(gray, RowMajor(all)))
            /\ fn_result.noise_level.path = "median_filter"
                 <=> \A b \in all : ~IsFlat(gray.std[b])

(***************************************************************************)
(* analyze_frequency_domain: the dominant frequency (frequency.py:41-78)   *)
(***************************************************************************)
dc_region_size == 5
MaxPlaneSide == 12

\* the indices a[start:stop] selects in an axis of n elements: a negative
\* bound counts from the end, and both bounds are clipped to 0..n
SliceBound(k, n) == IF k < 0 THEN Max2(k + n, 0) ELSE Min2(k, n)
Slice(start, stop, n) == SliceBound(start, n)..(SliceBound(stop, n) - 1)

\* Luma planes with an exactly known spectrum: columns alternate between
\* the levels a and b (a = b: a uniform plane; a # b needs an even width).
\* magnitude_spectrum after fftshift, doubled: the DC term h*w*(a+b)/2 sits
\* at <<h // 2, w // 2>>, the alternation h*w*|a-b|/2 at <<h // 2, 0>>, and
\* every other bin is 0.
Center(plane) == <<plane.h \div 2, plane.w \div 2>>

TwiceMagnitude(plane, y, x) ==
    IF <<y, x>> = Center(plane) THEN plane.h * plane.w * (plane.a + plane.b)
    ELSE IF y = plane.h \div 2 /\ x = 0 THEN plane.h * plane.w * Abs(plane.a - plane.b)
    ELSE 0

\* lines 70-73: the rows and columns whose intersection is set to 0
ZeroedRows(plane) ==
    Slice(Center(plane)[1] - dc_region_size, Center(plane)[1] + dc_region_size,
          plane.h)
ZeroedCols(plane) ==
    Slice(Center(plane)[2] - dc_region_size, Center(plane)[2] + dc_region_size,
          plane.w)

TwiceMagnitudeNoDc(plane, y, x) ==
    IF y \in ZeroedRows(plane) /\ x \in ZeroedCols(plane) THEN 0
    ELSE TwiceMagnitude(plane, y, x)

\* np.unravel_index(np.argmax(magnitude_no_dc), shape): the first maximum in
\* row-major order
Peak(plane) ==
    LET bins == (0..(plane.h - 1)) \X (0..(plane.w - 1))
        m(bin) == TwiceMagnitudeNoDc(plane, bin[1], bin[2])
        before(p, q) == p[1] < q[1] \/ (p[1] = q[1] /\ p[2] <= q[2])
    IN  CHOOSE p \in bins :
            \A q \in bins : m(p) > m(q) \/ (m(p) = m(q) /\ before(p, q))

SpectrumPlanes ==
    { [h |-> h, w |-> w, a |-> lv[1], b |-> lv[2]]
      : h \in 1..MaxPlaneSide, w \in 1..MaxPlaneSide,
        lv \in {<<0, 0>>, <<100, 100>>} }
      \cup { [h |-> h, w |-> 2 * k, a |-> 100, b |-> 50]
             : h \in 1..MaxPlaneSide, k \in 1..(MaxPlaneSide \div 2) }

InitSpectrum ==
    /\ pc = "spectrum"
    /\ OnlyFn
    /\ fn_args \in { [magnitude_spectrum |-> sp] : sp \in SpectrumPlanes }
    /\ fn_result = None

FindDominantFrequency ==
    /\ pc = "spectrum"
    /\ fn_result' = [ zeroed_rows |-> ZeroedRows(fn_args.magnitude_spectrum),
                      zeroed_cols |-> ZeroedCols(fn_args.magnitude_spectrum),
                      peak |-> Peak(fn_args.magnitude_spectrum) ]
    /\ pc' = "peak"
    /\ FnFrame

NextSpectrum == FindDominantFrequency

SpecSpectrum == InitSpectrum /\ [][NextSpectrum]_vars

(***************************************************************************)
(* C25                                                                     *)
(***************************************************************************)
\* C25: the DC component is always excluded from the dominant-frequency
\* search: before the peak is located, the 10 x 10 square of bins centred on
\* (H // 2, W // 2), ten rows and ten columns clipped only by the array
\* bounds, is zeroed, for every plane size including planes with a side
\* shorter than 10, so the reported peak is never the centre bin unless the
\* whole spectrum is zero.
C25_DcExcluded ==
    pc = "peak" =>
        LET plane == fn_args.magnitude_spectrum
            cy == Center(plane)[1]
            cx == Center(plane)[2]
        IN  /\ fn_result.zeroed_rows
                 = Max2(cy - 5, 0)..(Min2(cy + 5, plane.h) - 1)
            /\ fn_result.zeroed_cols
                 = Max2(cx - 5, 0)..(Min2(cx + 5, plane.w) - 1)
            /\ fn_result.peak = Center(plane)
                 => \A y \in 0..(plane.h - 1), x \in 0..(plane.w - 1) :
                        TwiceMagnitude(plane, y, x) = 0

(***************************************************************************)
(* analyze_frequency_domain: the downsampling (frequency.py:25-32)         *)
(***************************************************************************)
FrequencySides == {1, 2, 561, 1024, 2047, 2048, 2049, 2215, 2244, 3000, 4096}

InitDownsample ==
    /\ pc = "gray_plane"
    /\ OnlyFn
    /\ fn_args \in { [h |-> h, w |-> w] : h \in FrequencySides, w \in FrequencySides }
    /\ fn_result = None

Downsample ==
    /\ pc = "gray_plane"
    /\ fn_result' = DownsampledShape(fn_args.h, fn_args.w)
    /\ pc' = "downsampled"
    /\ FnFrame

NextDownsample == Downsample

SpecDownsample == InitDownsample /\ [][NextDownsample]_vars

(***************************************************************************)
(* C26                                                                     *)
(***************************************************************************)
\* C26: whenever max(H, W) > 2048 the luma plane is resized so that the
\* longer side is exactly 2048 and the shorter side is the proportionally
\* scaled value, and the resized plane is non-empty (both sides >= 1) for
\* every H, W >= 1; when max(H, W) <= 2048 no resize happens.
C26_DownsampleTo2048 ==
    pc = "downsampled" =>
        LET h == fn_args.h
            w == fn_args.w
            longer == Max2(h, w)
            shorter == Min2(h, w)
        IN  IF longer > 2048
            THEN /\ fn_result.outcome = "return"
                 /\ fn_result.resized
                 /\ Max2(fn_result.h, fn_result.w) = 2048
                 /\ Min2(fn_result.h, fn_result.w) = (shorter * 2048) \div longer
                 /\ fn_result.h >= 1 /\ fn_result.w >= 1
            ELSE /\ fn_result.outcome = "return"
                 /\ ~fn_result.resized
                 /\ fn_result.h = h /\ fn_result.w = w

(***************************************************************************)
(* The entries of the clustered path (color.py:88-108)                     *)
(***************************************************************************)
\* cluster_centers_.astype(int) of a fit whose centres differ pairwise
ClusterCentre(i) == Px((40 * i) % 256, (80 * i) % 256, (120 * i) % 256)

\* lines 88-108 on a completed fit: `centers` by cluster index and the
\* number of sampled pixels labelled with each index.  np.unique returns
\* the counts of the indices that occur, in ascending index order, and
\* zip(centers, counts) pairs the k-th centre with the k-th of those
\* counts; the list keeps the order of the loop (the sort of line 111 does
\* not change which colour goes with which percentage).
ClusteredEntries(centers, sizes) ==
    LET counts == NonZero(sizes)
        total_sampled == SumSeq(sizes)
        k == Min2(Len(centers), Len(counts))
    IN  [i \in 1..k |->
           [rgb |-> centers[i],
            percentage |-> Percentage(counts[i], total_sampled)]]

InitPairing ==
    /\ pc = "labelled"
    /\ OnlyFn
    /\ fn_args \in { [centers |-> [i \in 1..Len(sz) |-> ClusterCentre(i)],
                      sizes |-> sz] : sz \in VariedSizes }
    /\ fn_result = None

PairCentresWithCounts ==
    /\ pc = "labelled"
    /\ fn_result' = ClusteredEntries(fn_args.centers, fn_args.sizes)
    /\ pc' = "paired"
    /\ FnFrame

NextPairing == PairCentresWithCounts

SpecPairing == InitPairing /\ [][NextPairing]_vars

C28_BlurAgreesWithRating ==
    pc = "done" =>
        LET rating == fn_result.sharpness_rating[1]
            is_blurry == fn_result.blur_detection[1].is_blurry
        IN  /\ is_blurry <=> rating \in {"soft", "very_soft"}
            /\ ~is_blurry <=> rating \in {"moderate", "sharp", "very_sharp"}

\* the score 149.5, just below both thresholds: "soft" and blurry
C28_Witness ==
    /\ pc = "done"
    /\ fn_args.sharpness_score = Halves(150) - 1
    /\ fn_result.sharpness_rating = Some("soft")
    /\ fn_result.blur_detection[1].is_blurry

(***************************************************************************)
(* C29                                                                     *)
(***************************************************************************)
\* the sections a successful call of the tool returns
ResultSections(call) ==
    CASE call.tool = "get_image_metadata" -> {"metadata"}
      [] call.tool = "get_image_histogram" -> {"histogram", "statistics"}
      [] call.tool = "analyze_image_file" -> AnalysisSections

\* C29: every call of get_image_metadata, get_image_histogram or
\* analyze_image_file returns exactly one result and lets no exception
\* escape: either success=True with the result sections and no "error" key,
\* or success=False with an "error" holding code, message and details and
\* with no analysis section present, whichever step (validation, metadata,
\* decode, an engine) failed.
C29_OneStructuredResult ==
    pc = "returned" =>
        /\ DOMAIN tool_result = {"success", "keys", "nulls", "error"}
        /\ tool_result.success \in BOOLEAN
        /\ tool_result.success =>
              /\ "error" \notin tool_result.keys
              /\ tool_result.error = Unset
              /\ ResultSections(tool_call) \subseteq tool_result.keys
        /\ ~tool_result.success =>
              /\ tool_result.keys = {"success", "error"}
              /\ tool_result.error # Unset
              /\ DOMAIN tool_result.error[1] = {"code", "message", "details"}
              /\ tool_result.keys \cap (AnalysisSections \cup {"statistics"}) = {}

\* the frequency engine raised on a decoded buffer and the tool returned
\* the error dictionary
C29_Witness ==
    /\ pc = "returned"
    /\ tool_call.tool = "analyze_image_file"
    /\ tool_steps[Len(tool_steps)] = "analyze_frequency_domain"
    /\ ~tool_result.success
    /\ tool_result.error[1].details = ExceptionType("error")

(***************************************************************************)
(* C30                                                                     *)
(***************************************************************************)
\* what the same call returns for another file
SameCall(call, f) ==
    CASE call.tool = "get_image_metadata" -> get_image_metadata(f)
      [] call.tool = "get_image_histogram" -> get_image_histogram(f, call.process_raw)
      [] call.tool = "analyze_image_file" -> analyze_image_file(f, call.args)

\* how the tools treat the extension of a path, utils.py:74 and 83-85
ExtensionClass(path) ==
    IF Lower(Suffix(path)) \in RawExtensions THEN "raw"
    ELSE IF Lower(Suffix(path)) \in RasterExtensions THEN "raster"
    ELSE "unsupported"

\* two files that differ in nothing but the characters of their paths
SameButPath(f, g) ==
    /\ f.path # "" /\ g.path # ""
    /\ f.disk = g.disk
    /\ f.content = g.content
    /\ f.size = g.size
    /\ ExtensionClass(f.path) = ExtensionClass(g.path)

\* C30: the error code of a failed call depends only on the check or step
\* that failed: the same call on a file that differs from the supplied one
\* in nothing but the characters of its path (the same state on disk, the
\* same content, the same class of extension) fails at the same step with
\* the same error code.
C30_CodeIndependentOfPath ==
    (pc = "returned" /\ ~tool_result.success) =>
        \A g \in ToolFiles :
            SameButPath(tool_file, g) =>
                /\ SameCall(tool_call, g).steps = tool_steps
                /\ ~SameCall(tool_call, g).result.success
                /\ ErrorCode(SameCall(tool_call, g).result) = ErrorCode(tool_result)

=============================================================================
